---- MODULE Spec2Model ----
(***************************************************************************)
(* AIMaster API (src/AIMaster/app/api.py): token sessions, the             *)
(* require_user guard, owner-scoped Deck/Routine CRUD and the "actuar"     *)
(* publish workflow, as a state machine over the database tables, the      *)
(* in-process dictionaries and the static/actuar directory.                *)
(*                                                                         *)
(* Text that the code inspects character by character (emails, lookup      *)
(* identifiers, published texts, file names) is a sequence of one-letter   *)
(* strings; text that is only stored and compared (tokens, names, error    *)
(* messages) is a TLA+ string.  JSON values whose Python type the code     *)
(* tests are tagged records [t |-> type, v |-> value].                     *)
(***************************************************************************)
EXTENDS Integers, Sequences, FiniteSets, TLC

VARIABLES
    ab_user,         \* table ab_user (the FAB user model, UserModel)
    SESSIONS,        \* api.py SESSIONS: token -> user id
    decks,           \* table decks
    routines,        \* table routines
    actuar,          \* table actuar
    static_files,    \* directory static/actuar: file name -> document
    ACTUAR2_VALUES,  \* api.py ACTUAR2_VALUES: user id -> set of tokens
    clock,           \* int(datetime.utcnow().timestamp())
    threads,         \* post_actuar calls in flight (thread per request)
    call,            \* the last request handled: endpoint and credentials used
    resp             \* the response to it

vars == <<ab_user, SESSIONS, decks, routines, actuar, static_files,
          ACTUAR2_VALUES, clock, threads, call, resp>>

\* Everything a request handler can read or write besides the session registry.
tables == <<ab_user, decks, routines, actuar>>
stores == <<ab_user, SESSIONS, decks, routines, actuar, static_files, ACTUAR2_VALUES>>

-----------------------------------------------------------------------------
(* Bounds of the model.                                                    *)

\* The clock takes the values 0..MaxClock (seconds).
MaxClock == 1

-----------------------------------------------------------------------------
(* Python values.                                                          *)

NoUser == 0          \* no current user (ids are positive)
NoToken == ""        \* header or query parameter not supplied

Null == [t |-> "null"]
Num(n) == [t |-> "int", v |-> n]
Str(s) == [t |-> "str", v |-> s]      \* a str kept whole (a TLA+ string)
Text(s) == [t |-> "text", v |-> s]    \* a str as its characters
List(s) == [t |-> "list", v |-> s]

\* Python truthiness of a JSON value.
Truthy(x) ==
    CASE x.t = "null" -> FALSE
      [] x.t = "int"  -> x.v # 0
      [] x.t = "str"  -> x.v # ""
      [] x.t = "text" -> x.v # <<>>
      [] x.t = "list" -> x.v # <<>>

\* dict.get(key) of a JSON object (a function from its keys).
Get(data, key) == IF key \in DOMAIN data THEN data[key] ELSE Null

\* dict.get(key, default)
GetOr(data, key, default) == IF key \in DOMAIN data THEN data[key] ELSE default

\* Python `a or b` on JSON values.
OrElse(a, b) == IF Truthy(a) THEN a ELSE b

Max(S) == CHOOSE m \in S : \A n \in S : n <= m

-----------------------------------------------------------------------------
(* Character-level text.                                                   *)

UpperChars == <<"A", "B", "C", "D", "E", "F", "G", "H", "I", "J", "K", "L", "M",
                "N", "O", "P", "Q", "R", "S", "T", "U", "V", "W", "X", "Y", "Z">>
LowerChars == <<"a", "b", "c", "d", "e", "f", "g", "h", "i", "j", "k", "l", "m",
                "n", "o", "p", "q", "r", "s", "t", "u", "v", "w", "x", "y", "z">>
DigitChars == <<"0", "1", "2", "3", "4", "5", "6", "7", "8", "9">>

Range(f) == {f[i] : i \in DOMAIN f}

\* str.lower() of one character.
ToLower == [c \in Range(UpperChars) |->
               LowerChars[CHOOSE i \in DOMAIN UpperChars : UpperChars[i] = c]]
LowerChar(c) == IF c \in DOMAIN ToLower THEN ToLower[c] ELSE c

\* str.lower()
Lower(s) == [i \in DOMAIN s |-> LowerChar(s[i])]

\* str.isalnum() of one character.
AlnumChars == Range(UpperChars) \cup Range(LowerChars) \cup Range(DigitChars)
IsAlnum(c) == c \in AlnumChars

\* str(n) for n >= 0, as characters.
RECURSIVE StrOfNat(_)
StrOfNat(n) ==
    IF n < 10 THEN <<DigitChars[n + 1]>>
    ELSE StrOfNat(n \div 10) \o <<DigitChars[(n % 10) + 1]>>

-----------------------------------------------------------------------------
(* The database.  A table is a set of rows; the primary key is the SQLite  *)
(* rowid alias of `Column(Integer, primary_key=True)`: one more than the   *)
(* largest id in the table.                                                *)

NextId(table) == IF table = {} THEN 1 ELSE Max({r.id : r \in table}) + 1

\* db.session.query(UserModel).get(user_id): the row, or the empty set
UserById(users, id) == {u \in users : u.id = id}

\* db.session.query(UserModel).filter_by(email=email): exact comparison
UsersByEmail(users, email) == {u \in users : u.email = email}

\* generate_password_hash / check_password_hash (werkzeug)
PasswordHash(password) == <<"pbkdf2", password>>
CheckPasswordHash(hash, password) == hash = PasswordHash(password)

\* appbuilder.sm.find_user(username=...): case-insensitive, one_or_none with
\* MultipleResultsFound answered by None; find_user(email=...): exact.
FindUserByUsername(users, username) ==
    LET found == {u \in users : Lower(u.username) = Lower(username)}
    IN  IF Cardinality(found) = 1 THEN found ELSE {}

FindUserByEmail(users, email) ==
    LET found == {u \in users : u.email = email}
    IN  IF Cardinality(found) = 1 THEN found ELSE {}

\* appbuilder.sm.auth_user_db(username, password): TRUE when it returns a user
auth_user_db(users, username, password) ==
    LET byName == FindUserByUsername(users, username)
        found  == IF byName # {} THEN byName ELSE FindUserByEmail(users, username)
    IN  \E u \in found : CheckPasswordHash(u.password, password)

\* appbuilder.sm.add_user(username=email, email=email, password=password): the
\* table with the new row, or the table unchanged when a unique constraint
\* (username, email) refuses it.
add_user(users, email, password) ==
    IF \E u \in users : u.username = email \/ u.email = email
    THEN users
    ELSE users \cup {[id       |-> NextId(users),
                      username |-> email,
                      email    |-> email,
                      password |-> PasswordHash(password),
                      credits  |-> 0]}

-----------------------------------------------------------------------------
(* Responses.                                                              *)

Error(status, message) == [status |-> status, error |-> message, body |-> Null]
Ok(status, body) == [status |-> status, error |-> "", body |-> body]

AuthRequired == Error(401, "authentication required")

-----------------------------------------------------------------------------
(* Sessions and the guard.                                                 *)

\* A token format that leaves out the user id.
TokenWithoutUser(uid, now) == "token-" \o ToString(now)

\* f"token-{user.id}-{int(datetime.utcnow().timestamp())}"
Token(uid, now) == "token-" \o ToString(uid) \o "-" \o ToString(now)

\* A login that returns the token without storing it.
BindNothing(sessions, token, uid) == sessions

\* A login that ends every other session.
BindAlone(sessions, token, uid) == [t \in {token} |-> uid]

\* SESSIONS[token] = user_id
Bind(sessions, token, uid) ==
    [t \in DOMAIN sessions \cup {token} |-> IF t = token THEN uid ELSE sessions[t]]

\* A logout that looks the token up without removing it.
PopNothing(sessions, token) == sessions

\* A logout that empties the registry when it does not find the token.
PopOrClear(sessions, token) ==
    IF token \in DOMAIN sessions
    THEN [t \in DOMAIN sessions \ {token} |-> sessions[t]]
    ELSE [t \in {} |-> 0]

\* SESSIONS.pop(token, None)
Pop(sessions, token) == [t \in DOMAIN sessions \ {token} |-> sessions[t]]

\* The credentials of a request: the Flask-Login user of the session cookie
\* (NoUser when there is none), the Authorization header and the query
\* parameter `token`.
Credentials(ambient, header, query) ==
    [ambient |-> ambient, header |-> header, query |-> query]

\* request.headers.get('Authorization') or request.args.get('token')
PresentedToken(cr) == IF cr.header # NoToken THEN cr.header ELSE cr.query

\* A request without any credential.
NoCredentials == Credentials(NoUser, NoToken, NoToken)

\* A guard that takes the word of any token for user 1.
ResolveAnyToken(users, sessions, cr) ==
    IF cr.ambient # NoUser THEN cr.ambient
    ELSE IF PresentedToken(cr) = NoToken THEN NoUser
    ELSE IF PresentedToken(cr) \in DOMAIN sessions THEN sessions[PresentedToken(cr)]
    ELSE 1

\* A guard that looks at the token first and at the session cookie after.
ResolveTokenFirst(users, sessions, cr) ==
    LET token == PresentedToken(cr)
    IN  IF /\ token # NoToken
           /\ token \in DOMAIN sessions
           /\ \E u \in users : u.id = sessions[token]
        THEN sessions[token]
        ELSE cr.ambient

\* require_user: the id of request.current_user when the wrapped function is
\* called, NoUser when the wrapper answers 401.
Resolve(users, sessions, cr) ==
    IF cr.ambient # NoUser
    THEN cr.ambient
    ELSE LET token == PresentedToken(cr)
         IN  IF /\ token # NoToken
                /\ token \in DOMAIN sessions
                /\ UserById(users, sessions[token]) # {}
             THEN sessions[token]
             ELSE NoUser

require_user(cr) == Resolve(ab_user, SESSIONS, cr)

\* require_user of backend/app.py: the token only; 'invalid session' when the
\* token is bound to a user that is gone.
backend_require_user(users, sessions, cr) ==
    LET token == PresentedToken(cr)
    IN  IF token = NoToken \/ token \notin DOMAIN sessions
        THEN [user |-> NoUser, resp |-> Error(401, "authentication required")]
        ELSE IF UserById(users, sessions[token]) = {}
        THEN [user |-> NoUser, resp |-> Error(401, "invalid session")]
        ELSE [user |-> sessions[token], resp |-> Ok(200, Null)]

\* Which credential require_user accepted.
Via(cr) == IF cr.ambient # NoUser THEN "session" ELSE "token"

\* The request as recorded: `cr` the credentials it carried, `ran` whether the
\* endpoint function itself was called (FALSE when require_user answered in
\* its place), `user` the current user it ran with, `via` which credential
\* authenticated it, `tok` the token it presented, `id` the row id in the path
\* handed to the endpoint function (0 when there is none).
Call(op, cr, uid) ==
    [op |-> op, cr |-> cr, ran |-> TRUE, user |-> uid, via |-> Via(cr),
     tok |-> PresentedToken(cr), id |-> 0]
CallOn(op, cr, uid, id) == [Call(op, cr, uid) EXCEPT !.id = id]
\* A call on a row (0 when a row is being created) remembered with the JSON
\* body it carried.
CallOnWith(op, cr, uid, id, data) ==
    [op |-> op, cr |-> cr, ran |-> TRUE, user |-> uid, via |-> Via(cr),
     tok |-> PresentedToken(cr), id |-> id, data |-> data]
\* A call remembered with the JSON body it carried and with the answer the
\* file system gave to its write ("none" where the endpoint writes no file).
CallWith(op, cr, uid, data, io) ==
    [op |-> op, cr |-> cr, ran |-> TRUE, user |-> uid, via |-> Via(cr),
     tok |-> PresentedToken(cr), id |-> 0, data |-> data, io |-> io]
\* A login remembered with the email and password it carried.
LoginCall(email, password) ==
    [op |-> "login", cr |-> NoCredentials, ran |-> TRUE, user |-> NoUser,
     via |-> "public", tok |-> NoToken, id |-> 0,
     data |-> [email |-> email, password |-> password]]
PublicCall(op) ==
    [op |-> op, cr |-> NoCredentials, ran |-> TRUE, user |-> NoUser,
     via |-> "public", tok |-> NoToken, id |-> 0]
\* A call of a public route remembered with the identifier in its path.
PublicCallFor(op, username) ==
    [op |-> op, cr |-> NoCredentials, ran |-> TRUE, user |-> NoUser,
     via |-> "public", tok |-> NoToken, id |-> 0, path |-> username]
Refused(op, cr) ==
    [op |-> op, cr |-> cr, ran |-> FALSE, user |-> NoUser, via |-> "none",
     tok |-> PresentedToken(cr), id |-> 0]
NotCalled ==
    [op |-> "start", cr |-> NoCredentials, ran |-> FALSE, user |-> NoUser,
     via |-> "none", tok |-> NoToken, id |-> 0]

\* The 401 of require_user: nothing else happens.
Reject(op, cr) ==
    /\ call' = Refused(op, cr)
    /\ resp' = AuthRequired
    /\ UNCHANGED <<stores, clock, threads>>

-----------------------------------------------------------------------------
(* INITIAL_ROUTINES (defaults.py): name, stack and node ids of each entry. *)

INITIAL_ROUTINES ==
    << [name  |-> "Magia de Cerca con Cartas", stack |-> "Orden1",
        nodes |-> <<"n1", "n2", "n3", "n4">>],
       [name  |-> "Camareando", stack |-> "Orden2",
        nodes |-> <<"n7", "n8", "n9", "n10">>] >>

\* A seeding that stops after the first entry.
SeedFirstRoutine(table, owner, i) ==
    table \cup {[id         |-> NextId(table),
                 name       |-> Str(INITIAL_ROUTINES[1].name),
                 stack      |-> Str(INITIAL_ROUTINES[1].stack),
                 deck_id    |-> Null,
                 nodes      |-> List(INITIAL_ROUTINES[1].nodes),
                 deck_order |-> Null,
                 owner_id   |-> owner]}

\* The rows register adds for a new user, in the order of INITIAL_ROUTINES.
RECURSIVE SeedRoutines(_, _, _)
SeedRoutines(table, owner, i) ==
    IF i > Len(INITIAL_ROUTINES) THEN table
    ELSE SeedRoutines(
            table \cup {[id         |-> NextId(table),
                         name       |-> Str(INITIAL_ROUTINES[i].name),
                         stack      |-> Str(INITIAL_ROUTINES[i].stack),
                         deck_id    |-> Null,
                         nodes      |-> List(INITIAL_ROUTINES[i].nodes),
                         deck_order |-> Null,
                         owner_id   |-> owner]},
            owner, i + 1)

-----------------------------------------------------------------------------
(* POST /api/register, POST /api/login, POST /api/logout, GET /api/user.   *)
(* An email or password that is missing or empty is the empty text.        *)

\* A check that lets every email through.
EmailNeverTaken(users, email) == FALSE

\* user = query(UserModel).filter_by(email=email).first(); if user: ...
EmailTaken(users, email) == UsersByEmail(users, email) # {}

\* How the database answers the commit of the seeded routines: "ok", or
\* "fails" (the exception is caught, the session rolled back, and the
\* registration goes on).
SeedOutcomes == {"ok", "fails"}

register(email, password, seed) ==
    /\ call' = PublicCall("register")
    /\ IF email = <<>> \/ password = ""
       THEN /\ resp' = Error(400, "email and password required")
            /\ UNCHANGED <<ab_user, routines>>
       ELSE IF EmailTaken(ab_user, email)
       THEN /\ resp' = Error(400, "email already registered")
            /\ UNCHANGED <<ab_user, routines>>
       ELSE LET added == add_user(ab_user, email, password)
                new   == UsersByEmail(added, email)
            IN  IF new = {}
                THEN \* user is None: the AttributeError is answered by 500
                     /\ resp' = Error(500, "'NoneType' object has no attribute 'id'")
                     /\ UNCHANGED <<ab_user, routines>>
                ELSE \E user \in new :
                     /\ ab_user' = added
                     /\ routines' = IF seed = "ok"
                                    THEN SeedRoutines(routines, user.id, 1)
                                    ELSE routines
                     /\ resp' = Ok(201, [id |-> user.id, email |-> user.email])
    /\ UNCHANGED <<SESSIONS, decks, actuar, static_files, ACTUAR2_VALUES,
                   clock, threads>>

\* register of backend/app.py on its own user table: the answer, and the
\* table it leaves.  `seed` is data.get('credits', 5); credits is NOT NULL.
backend_register_seeded(users, email, password, seed) ==
    IF email = <<>> \/ password = ""
    THEN [resp |-> Error(400, "email and password required"), users |-> users]
    ELSE IF \E u \in users : u.email = email
    THEN [resp |-> Error(400, "email already registered"), users |-> users]
    ELSE IF seed.t # "int"
    THEN [resp |-> Error(500, "Internal Server Error"), users |-> users]
    ELSE [resp  |-> Ok(201, [id |-> NextId(users), email |-> email, credits |-> seed.v]),
          users |-> users \cup {[id       |-> NextId(users),
                                 email    |-> email,
                                 password |-> PasswordHash(password),
                                 credits  |-> seed.v]}]

\* The same for a body without the key 'credits'.
backend_register(users, email, password) ==
    backend_register_seeded(users, email, password, Num(5))

\* login of backend/app.py (users.email is unique): what it answers and the
\* registry it leaves.
backend_login(users, sessions, email, password) ==
    LET found == {u \in users : u.email = email}
    IN  IF email = <<>> \/ password = ""
        THEN [resp |-> Error(400, "email and password required"), sessions |-> sessions]
        ELSE IF found = {} \/ \A u \in found : ~CheckPasswordHash(u.password, password)
        THEN [resp |-> Error(401, "invalid credentials"), sessions |-> sessions]
        ELSE LET user  == CHOOSE u \in found : CheckPasswordHash(u.password, password)
                 token == "token-" \o ToString(user.id)
             IN  [resp     |-> Ok(200, [id |-> user.id, email |-> user.email,
                                        credits |-> user.credits, token |-> token]),
                  sessions |-> Bind(sessions, token, user.id)]

\* A login that tells an unknown email from a wrong password.
LoginResultTellingWhy(users, sessions, now, email, password) ==
    IF email = <<>> \/ password = ""
    THEN [resp |-> Error(400, "email and password required"), sessions |-> sessions]
    ELSE IF UsersByEmail(users, email) = {}
    THEN [resp |-> Error(404, "unknown email"), sessions |-> sessions]
    ELSE IF ~auth_user_db(users, email, password)
    THEN [resp |-> Error(401, "invalid credentials"), sessions |-> sessions]
    ELSE LET user  == CHOOSE u \in UsersByEmail(users, email) : TRUE
             token == Token(user.id, now)
         IN  [resp     |-> Ok(200, [id |-> user.id, email |-> user.email,
                                    token |-> token]),
              sessions |-> Bind(sessions, token, user.id)]

\* What login answers and the registry it leaves, for the given tables,
\* registry and time.
LoginResult(users, sessions, now, email, password) ==
    IF email = <<>> \/ password = ""
    THEN [resp |-> Error(400, "email and password required"), sessions |-> sessions]
    ELSE IF UsersByEmail(users, email) = {}
    THEN [resp |-> Error(401, "invalid credentials"), sessions |-> sessions]
    ELSE IF ~auth_user_db(users, email, password)
    THEN [resp |-> Error(401, "invalid credentials"), sessions |-> sessions]
    ELSE LET user  == CHOOSE u \in UsersByEmail(users, email) : TRUE
             token == Token(user.id, now)
         IN  [resp     |-> Ok(200, [id |-> user.id, email |-> user.email,
                                    token |-> token]),
              sessions |-> Bind(sessions, token, user.id)]

login(email, password) ==
    LET result == LoginResult(ab_user, SESSIONS, clock, email, password)
    IN  /\ call' = LoginCall(email, password)
        /\ resp' = result.resp
        /\ SESSIONS' = result.sessions
        /\ UNCHANGED <<tables, static_files, ACTUAR2_VALUES, clock, threads>>

logout(cr) ==
    LET uid == require_user(cr)
    IN  IF uid = NoUser THEN Reject("logout", cr)
        ELSE /\ call' = Call("logout", cr, uid)
             /\ SESSIONS' = Pop(SESSIONS, PresentedToken(cr))
             /\ resp' = Ok(200, [success |-> TRUE])
             /\ UNCHANGED <<tables, static_files, ACTUAR2_VALUES, clock, threads>>

get_user(cr) ==
    LET uid == require_user(cr)
    IN  IF uid = NoUser THEN Reject("get_user", cr)
        ELSE \E u \in UserById(ab_user, uid) :
             /\ call' = Call("get_user", cr, uid)
             /\ resp' = Ok(200, [id |-> u.id, email |-> u.email, credits |-> u.credits])
             /\ UNCHANGED <<stores, clock, threads>>

\* A second passes.
Tick ==
    /\ clock < MaxClock
    /\ clock' = clock + 1
    /\ UNCHANGED <<stores, threads, call, resp>>

-----------------------------------------------------------------------------
(* Decks: /api/decks.                                                      *)

NotFound == Error(404, "not found")

\* An uncaught exception of the handler (an IntegrityError at commit): the
\* request ends with 500 and the session is rolled back at teardown.
ServerError == Error(500, "Internal Server Error")

\* Deck.to_dict
deck_to_dict(d) ==
    [id |-> StrOfNat(d.id), name |-> d.name, description |-> d.description,
     owner_id |-> d.owner_id, nodes |-> OrElse(d.nodes, List(<<>>))]

\* resp['order'] = resp.get('nodes', [])
WithOrder(body) ==
    [k \in DOMAIN body \cup {"order"} |-> IF k = "order" THEN body.nodes ELSE body[k]]

\* A deck query that forgets the owner filter.
DecksOfAnyone(uid) == decks

\* query(Deck).filter_by(owner_id=request.current_user.id)
DecksOf(uid) == {d \in decks : d.owner_id = uid}

\* query(Deck).filter_by(id=deck_id, owner_id=request.current_user.id)
DeckOwned(deck_id, uid) == {d \in DecksOf(uid) : d.id = deck_id}

list_decks(cr) ==
    LET uid == require_user(cr)
    IN  IF uid = NoUser THEN Reject("list_decks", cr)
        ELSE /\ call' = Call("list_decks", cr, uid)
             /\ resp' = Ok(200, [rows |-> {deck_to_dict(d) : d \in DecksOf(uid)}])
             /\ UNCHANGED <<stores, clock, threads>>

create_deck(cr, data) ==
    LET uid   == require_user(cr)
        name  == OrElse(Get(data, "name"), Get(data, "stack"))
        nodes == OrElse(OrElse(Get(data, "nodes"), Get(data, "order")), List(<<>>))
        deck  == [id |-> NextId(decks), name |-> name,
                  description |-> Get(data, "description"),
                  owner_id |-> uid, nodes |-> nodes]
    IN  IF uid = NoUser THEN Reject("create_deck", cr)
        ELSE /\ call' = Call("create_deck", cr, uid)
             /\ IF ~Truthy(name)
                THEN resp' = Error(400, "name required") /\ UNCHANGED decks
                ELSE IF nodes.t # "list"
                THEN resp' = Error(400, "nodes must be a list") /\ UNCHANGED decks
                ELSE /\ decks' = decks \cup {deck}
                     /\ resp' = Ok(201, IF "order" \in DOMAIN data
                                       THEN WithOrder(deck_to_dict(deck))
                                       ELSE deck_to_dict(deck))
             /\ UNCHANGED <<ab_user, SESSIONS, routines, actuar, static_files,
                            ACTUAR2_VALUES, clock, threads>>

get_deck(cr, deck_id) ==
    LET uid == require_user(cr)
    IN  IF uid = NoUser THEN Reject("get_deck", cr)
        ELSE /\ call' = CallOn("get_deck", cr, uid, deck_id)
             /\ IF DeckOwned(deck_id, uid) = {}
                THEN resp' = NotFound
                ELSE \E deck \in DeckOwned(deck_id, uid) :
                        resp' = Ok(200, deck_to_dict(deck))
             /\ UNCHANGED <<stores, clock, threads>>

update_deck(cr, deck_id, data) ==
    LET uid == require_user(cr)
    IN  IF uid = NoUser THEN Reject("update_deck", cr)
        ELSE /\ call' = CallOnWith("update_deck", cr, uid, deck_id, data)
             /\ IF DeckOwned(deck_id, uid) = {}
                THEN resp' = NotFound /\ UNCHANGED decks
                ELSE \E deck \in DeckOwned(deck_id, uid) :
                     LET named == [deck EXCEPT
                                     !.name = GetOr(data, "name", deck.name),
                                     !.description =
                                         GetOr(data, "description", deck.description)]
                         new   == IF "nodes" \in DOMAIN data
                                  THEN [named EXCEPT !.nodes = data["nodes"]]
                                  ELSE named
                     IN  IF "nodes" \in DOMAIN data /\ data["nodes"].t # "list"
                         THEN resp' = Error(400, "nodes must be a list") /\ UNCHANGED decks
                         ELSE IF new.name = Null   \* name is NOT NULL: commit raises
                         THEN resp' = ServerError /\ UNCHANGED decks
                         ELSE /\ decks' = (decks \ {deck}) \cup {new}
                              /\ resp' = Ok(200, deck_to_dict(new))
             /\ UNCHANGED <<ab_user, SESSIONS, routines, actuar, static_files,
                            ACTUAR2_VALUES, clock, threads>>

\* A deletion that takes the routines attached to the deck with it.
delete_deck_cascading(cr, deck_id) ==
    LET uid == require_user(cr)
    IN  IF uid = NoUser THEN Reject("delete_deck", cr)
        ELSE /\ call' = CallOn("delete_deck", cr, uid, deck_id)
             /\ IF DeckOwned(deck_id, uid) = {}
                THEN resp' = NotFound /\ UNCHANGED <<decks, routines>>
                ELSE \E deck \in DeckOwned(deck_id, uid) :
                     /\ decks' = decks \ {deck}
                     /\ routines' = {r \in routines : r.deck_id # Num(deck.id)}
                     /\ resp' = Ok(200, [success |-> TRUE])
             /\ UNCHANGED <<ab_user, SESSIONS, actuar, static_files,
                            ACTUAR2_VALUES, clock, threads>>

delete_deck(cr, deck_id) ==
    LET uid == require_user(cr)
    IN  IF uid = NoUser THEN Reject("delete_deck", cr)
        ELSE /\ call' = CallOn("delete_deck", cr, uid, deck_id)
             /\ IF DeckOwned(deck_id, uid) = {}
                THEN resp' = NotFound /\ UNCHANGED decks
                ELSE \E deck \in DeckOwned(deck_id, uid) :
                     /\ decks' = decks \ {deck}
                     /\ resp' = Ok(200, [success |-> TRUE])
             /\ UNCHANGED <<ab_user, SESSIONS, routines, actuar, static_files,
                            ACTUAR2_VALUES, clock, threads>>

-----------------------------------------------------------------------------
(* Routines: /api/routines.                                                *)

\* _table_has_column('routines', 'deck_order'): the column is part of the
\* model class and is added at start-up when missing.
_table_has_column == TRUE

\* str(self.deck_id) if self.deck_id is not None else None
DeckIdText(deck_id) ==
    IF deck_id = Null THEN Null
    ELSE IF deck_id.t = "int" THEN Text(StrOfNat(deck_id.v))
    ELSE deck_id

\* Routine.to_dict
routine_to_dict(r) ==
    [id |-> StrOfNat(r.id), name |-> r.name, stack |-> r.stack,
     deck_id |-> DeckIdText(r.deck_id), nodes |-> OrElse(r.nodes, List(<<>>)),
     deck_order |-> OrElse(r.deck_order, List(<<>>)), owner_id |-> r.owner_id]

\* A routine query that forgets the owner filter.
RoutinesOfAnyone(uid) == routines

\* query(Routine).filter_by(owner_id=request.current_user.id)
RoutinesOf(uid) == {r \in routines : r.owner_id = uid}

\* query(Routine).filter_by(id=routine_id, owner_id=request.current_user.id)
RoutineOwned(routine_id, uid) == {r \in RoutinesOf(uid) : r.id = routine_id}

\* A deck lookup by id alone.
DeckForRoutineOfAnyone(deck_id, uid) ==
    {d \in decks : deck_id.t = "int" /\ d.id = deck_id.v}

\* query(Deck).filter_by(id=deck_id, owner_id=request.current_user.id) for
\* the deck_id of a request body
DeckForRoutine(deck_id, uid) ==
    {d \in DecksOf(uid) : deck_id.t = "int" /\ d.id = deck_id.v}

\* query(Deck).filter_by(name=stack, owner_id=request.current_user.id)
DeckNamed(stack, uid) == {d \in DecksOf(uid) : d.name = stack}

list_routines(cr) ==
    LET uid == require_user(cr)
    IN  IF uid = NoUser THEN Reject("list_routines", cr)
        ELSE /\ call' = Call("list_routines", cr, uid)
             /\ resp' = Ok(200, [rows |-> {routine_to_dict(r) : r \in RoutinesOf(uid)}])
             /\ UNCHANGED <<stores, clock, threads>>

\* The row create_routine adds once the deck is settled (deck: the set
\* holding the deck found, or empty).
NewRoutine(data, uid, deck) ==
    [id         |-> NextId(routines),
     name       |-> Get(data, "name"),
     stack      |-> OrElse(Get(data, "stack"), Get(data, "deck_name")),
     deck_id    |-> IF deck = {} THEN Null ELSE Num((CHOOSE d \in deck : TRUE).id),
     nodes      |-> OrElse(Get(data, "nodes"), List(<<>>)),
     deck_order |-> IF "deck_order" \in DOMAIN data /\ _table_has_column
                    THEN data["deck_order"] ELSE Null,
     owner_id   |-> uid]

create_routine(cr, data) ==
    LET uid     == require_user(cr)
        name    == Get(data, "name")
        stack   == OrElse(Get(data, "stack"), Get(data, "deck_name"))
        deck_id == Get(data, "deck_id")
        nodes   == OrElse(Get(data, "nodes"), List(<<>>))
        byId    == DeckForRoutine(deck_id, uid)
        byName  == IF Truthy(stack) THEN DeckNamed(stack, uid) ELSE {}
    IN  IF uid = NoUser THEN Reject("create_routine", cr)
        ELSE /\ call' = CallOnWith("create_routine", cr, uid, 0, data)
             /\ IF ~Truthy(name)
                THEN resp' = Error(400, "name required") /\ UNCHANGED routines
                ELSE IF nodes.t # "list"
                THEN resp' = Error(400, "nodes must be a list") /\ UNCHANGED routines
                ELSE IF "deck_order" \in DOMAIN data /\ data["deck_order"].t # "list"
                THEN resp' = Error(400, "deck_order must be a list") /\ UNCHANGED routines
                ELSE IF Truthy(deck_id) /\ byId = {}
                THEN /\ resp' = Error(404, "deck not found or unauthorized")
                     /\ UNCHANGED routines
                ELSE \E deck \in IF Truthy(deck_id) THEN {{d} : d \in byId}
                                 ELSE IF byName = {} THEN {{}}
                                 ELSE {{d} : d \in byName} :   \* .first()
                     LET routine == NewRoutine(data, uid, deck)
                     IN  /\ routines' = routines \cup {routine}
                         /\ resp' = Ok(201, routine_to_dict(routine))
             /\ UNCHANGED <<ab_user, SESSIONS, decks, actuar, static_files,
                            ACTUAR2_VALUES, clock, threads>>

\* create_routine of backend/app.py on the given tables: the outcomes it can
\* have, each the answer and the routine table it leaves.  The entries of a
\* nodes list stand for node objects of the required shape.
backend_create_routine(dks, rts, uid, data) ==
    LET name    == Get(data, "name")
        stack   == OrElse(Get(data, "stack"), Get(data, "deck_name"))
        deck_id == Get(data, "deck_id")
        nodes   == IF Get(data, "nodes") = Null THEN List(<<>>) ELSE Get(data, "nodes")
        byId    == {d \in dks : deck_id.t = "int" /\ d.id = deck_id.v /\ d.owner_id = uid}
        byName  == IF Truthy(stack)
                   THEN {d \in dks : d.name = stack /\ d.owner_id = uid} ELSE {}
        found   == IF Truthy(deck_id) THEN byId ELSE byName
        routine(deck) == [id       |-> NextId(rts),
                          name     |-> name,
                          stack    |-> stack,
                          deck_id  |-> deck,
                          nodes    |-> nodes,
                          owner_id |-> uid]
        created(deck) == [resp     |-> Ok(201, [routine(deck) EXCEPT !.id = StrOfNat(@)]),
                          routines |-> rts \cup {routine(deck)}]
    IN  IF ~Truthy(name)
        THEN {[resp |-> Error(400, "name required"), routines |-> rts]}
        ELSE IF nodes.t # "list"
        THEN {[resp |-> Error(400, "nodes must be a list"), routines |-> rts]}
        ELSE IF Truthy(deck_id) /\ byId = {}
        THEN {[resp |-> Error(404, "deck not found or unauthorized"), routines |-> rts]}
        ELSE IF found = {} THEN {created(Null)}
        ELSE {created(Num(d.id)) : d \in found}   \* .first()

get_routine(cr, routine_id) ==
    LET uid == require_user(cr)
    IN  IF uid = NoUser THEN Reject("get_routine", cr)
        ELSE /\ call' = CallOn("get_routine", cr, uid, routine_id)
             /\ IF RoutineOwned(routine_id, uid) = {}
                THEN resp' = NotFound
                ELSE \E r \in RoutineOwned(routine_id, uid) :
                        resp' = Ok(200, routine_to_dict(r))
             /\ UNCHANGED <<stores, clock, threads>>

\* An update that appends a supplied nodes list to the stored one.
UpdatedRoutineMerging(r, data) ==
    LET named == [r EXCEPT !.name = GetOr(data, "name", r.name),
                           !.stack = GetOr(data, "stack", r.stack)]
        noded == IF "nodes" \in DOMAIN data /\ data["nodes"].t = "list"
                 THEN [named EXCEPT !.nodes = List(OrElse(r.nodes, List(<<>>)).v
                                                   \o data["nodes"].v)]
                 ELSE named
    IN  noded

\* The row update_routine commits for the request body, field by field.
UpdatedRoutine(r, data) ==
    LET named   == [r EXCEPT !.name = GetOr(data, "name", r.name),
                             !.stack = GetOr(data, "stack", r.stack)]
        noded   == IF "nodes" \in DOMAIN data
                   THEN [named EXCEPT !.nodes = data["nodes"]] ELSE named
        ordered == IF "deck_order" \in DOMAIN data /\ _table_has_column
                   THEN [noded EXCEPT !.deck_order = data["deck_order"]] ELSE noded
    IN  IF "deck_id" \in DOMAIN data
        THEN [ordered EXCEPT !.deck_id = data["deck_id"]] ELSE ordered

\* An update whose refusals keep the name and stack assigned before the
\* failing check.
update_routine_committing(cr, routine_id, data) ==
    LET uid == require_user(cr)
    IN  IF uid = NoUser THEN Reject("update_routine", cr)
        ELSE /\ call' = CallOnWith("update_routine", cr, uid, routine_id, data)
             /\ IF RoutineOwned(routine_id, uid) = {}
                THEN resp' = NotFound /\ UNCHANGED routines
                ELSE \E r \in RoutineOwned(routine_id, uid) :
                     LET named == [r EXCEPT !.name = GetOr(data, "name", r.name),
                                            !.stack = GetOr(data, "stack", r.stack)]
                     IN  IF "nodes" \in DOMAIN data /\ data["nodes"].t # "list"
                         THEN /\ resp' = Error(400, "nodes must be a list")
                              /\ routines' = (routines \ {r}) \cup {named}
                         ELSE IF /\ "deck_order" \in DOMAIN data /\ _table_has_column
                                 /\ data["deck_order"] # Null
                                 /\ data["deck_order"].t # "list"
                         THEN /\ resp' = Error(400, "deck_order must be a list")
                              /\ routines' = (routines \ {r}) \cup {named}
                         ELSE IF /\ "deck_id" \in DOMAIN data
                                 /\ Truthy(data["deck_id"])
                                 /\ DeckForRoutine(data["deck_id"], uid) = {}
                         THEN /\ resp' = Error(404, "deck not found or unauthorized")
                              /\ routines' = (routines \ {r}) \cup {named}
                         ELSE /\ routines' = (routines \ {r}) \cup {UpdatedRoutine(r, data)}
                              /\ resp' = Ok(200, routine_to_dict(UpdatedRoutine(r, data)))
             /\ UNCHANGED <<ab_user, SESSIONS, decks, actuar, static_files,
                            ACTUAR2_VALUES, clock, threads>>

update_routine(cr, routine_id, data) ==
    LET uid == require_user(cr)
    IN  IF uid = NoUser THEN Reject("update_routine", cr)
        ELSE /\ call' = CallOnWith("update_routine", cr, uid, routine_id, data)
             /\ IF RoutineOwned(routine_id, uid) = {}
                THEN resp' = NotFound /\ UNCHANGED routines
                ELSE \E r \in RoutineOwned(routine_id, uid) :
                     IF "nodes" \in DOMAIN data /\ data["nodes"].t # "list"
                     THEN resp' = Error(400, "nodes must be a list") /\ UNCHANGED routines
                     ELSE IF /\ "deck_order" \in DOMAIN data /\ _table_has_column
                             /\ data["deck_order"] # Null
                             /\ data["deck_order"].t # "list"
                     THEN /\ resp' = Error(400, "deck_order must be a list")
                          /\ UNCHANGED routines
                     ELSE IF /\ "deck_id" \in DOMAIN data
                             /\ Truthy(data["deck_id"])
                             /\ DeckForRoutine(data["deck_id"], uid) = {}
                     THEN /\ resp' = Error(404, "deck not found or unauthorized")
                          /\ UNCHANGED routines
                     ELSE IF UpdatedRoutine(r, data).name = Null  \* NOT NULL
                     THEN resp' = ServerError /\ UNCHANGED routines
                     ELSE /\ routines' = (routines \ {r}) \cup {UpdatedRoutine(r, data)}
                          /\ resp' = Ok(200, routine_to_dict(UpdatedRoutine(r, data)))
             /\ UNCHANGED <<ab_user, SESSIONS, decks, actuar, static_files,
                            ACTUAR2_VALUES, clock, threads>>

delete_routine(cr, routine_id) ==
    LET uid == require_user(cr)
    IN  IF uid = NoUser THEN Reject("delete_routine", cr)
        ELSE /\ call' = CallOn("delete_routine", cr, uid, routine_id)
             /\ IF RoutineOwned(routine_id, uid) = {}
                THEN resp' = NotFound /\ UNCHANGED routines
                ELSE \E r \in RoutineOwned(routine_id, uid) :
                     /\ routines' = routines \ {r}
                     /\ resp' = Ok(200, [success |-> TRUE])
             /\ UNCHANGED <<ab_user, SESSIONS, decks, actuar, static_files,
                            ACTUAR2_VALUES, clock, threads>>

-----------------------------------------------------------------------------
(* Actuar: POST /api/actuar, GET /api/actuar/<username>, and the static    *)
(* artifact.  static_files maps a file name of static/actuar to the        *)
(* document it holds.                                                      *)

\* html.escape of one character (quote=True).
EscapeChar(c) ==
    CASE c = "&"  -> <<"&", "a", "m", "p", ";">>
      [] c = "<"  -> <<"&", "l", "t", ";">>
      [] c = ">"  -> <<"&", "g", "t", ";">>
      [] c = "\"" -> <<"&", "q", "u", "o", "t", ";">>
      [] c = "'"  -> <<"&", "#", "x", "2", "7", ";">>
      [] OTHER    -> <<c>>

\* html.escape
RECURSIVE Escape(_)
Escape(s) == IF s = <<>> THEN <<>> ELSE EscapeChar(Head(s)) \o Escape(Tail(s))

\* ''.join(c for c in s.lower() if (c.isalnum() or c in '-_'))
_sanitize_token(s) == SelectSeq(Lower(s), LAMBDA c : IsAlnum(c) \/ c \in {"-", "_"})

Public == <<"p", "u", "b", "l", "i", "c">>

\* s.split(ch, 1)[0]
RECURSIVE Before(_, _)
Before(s, ch) ==
    IF s = <<>> \/ Head(s) = ch THEN <<>> ELSE <<Head(s)>> \o Before(Tail(s), ch)

_derive_sanitized_username(user) ==
    LET local     == IF "@" \in Range(user.email) THEN Before(user.email, "@") ELSE <<>>
        base      == IF local = <<>> THEN StrOfNat(user.id) ELSE local
        sanitized == _sanitize_token(base)
    IN  IF sanitized = <<>> THEN Public ELSE sanitized

\* A name that keeps the part before the first underscore only.
ArtifactNameOfUser(username) ==
    IF "_" \in Range(username) THEN Before(username, "_") ELSE username

\* The name under which _write_actuar_static files a username.
ArtifactName(username) ==
    IF _sanitize_token(username) = <<>> THEN Public ELSE _sanitize_token(username)

\* f"{username}.html"
OutPath(name) == name \o <<".", "h", "t", "m", "l">>

\* f"{base_url}/{username}.html"
StaticUrl(name) ==
    <<"/", "s", "t", "a", "t", "i", "c", "/", "a", "c", "t", "u", "a", "r", "/">>
        \o OutPath(name)

\* html_doc: the parts of the document that vary.
HtmlDoc(name, text) ==
    [title |-> Escape(name), h1 |-> Escape(name), pre |-> Escape(text)]

\* A file that open(out_path, 'w') has emptied and that was not written.
EmptyFile == [title |-> <<>>, h1 |-> <<>>, pre |-> <<>>]

\* How the file system answers a write: "ok"; "open_fails" (makedirs or open
\* raises, nothing is touched); "write_fails" (open has truncated the file, and
\* the write raises).
IoOutcomes == {"ok", "open_fails", "write_fails"}

\* A write that appends to what the file holds.
WriteAppending(files, path, doc) ==
    [f \in DOMAIN files \cup {path} |->
        IF f # path THEN files[f]
        ELSE IF path \in DOMAIN files
             THEN [doc EXCEPT !.pre = files[path].pre \o doc.pre]
             ELSE doc]

\* with open(out_path, 'w') as f: f.write(html_doc)
Write(files, path, doc) ==
    [f \in DOMAIN files \cup {path} |-> IF f = path THEN doc ELSE files[f]]

\* What _write_actuar_static returns, and the directory it leaves.
_write_actuar_static(files, username, text, io) ==
    LET name == ArtifactName(username)
    IN  CASE io = "ok" ->
               [files |-> Write(files, OutPath(name), HtmlDoc(name, text)),
                urls  |-> [url |-> StaticUrl(name)]]
          [] io = "open_fails" ->
               [files |-> files, urls |-> [error |-> "OSError"]]
          [] io = "write_fails" ->
               [files |-> Write(files, OutPath(name), EmptyFile),
                urls  |-> [error |-> "OSError"]]

\* str(text) for the JSON value of 'text'
PyStr(x) == IF x.t = "int" THEN StrOfNat(x.v) ELSE x.v

\* datetime.isoformat()
IsoFormat(time) == [t |-> "time", v |-> time]

\* query(Actuar).filter_by(user_id=u.id)
ActuarOf(rows, uid) == {r \in rows : r.user_id = uid}

\* An insert into a table without the unique constraint on user_id.
InsertAnyway(rows, row) == rows \cup {row}

\* INSERT INTO actuar: the table with the row, or the table unchanged when
\* unique=True on user_id refuses it (IntegrityError).
Insert(rows, row) ==
    IF \E r \in rows : r.user_id = row.user_id THEN rows ELSE rows \cup {row}

\* UPDATE actuar SET text=?, updated_at=? WHERE id=?  (no statement is sent
\* when the text is the one the row was loaded with)
Update(rows, id, text, now) ==
    {IF r.id = id /\ r.text # text THEN [r EXCEPT !.text = text, !.updated_at = now]
     ELSE r : r \in rows}

\* The upsert of post_actuar in one piece: the table after the commit.
Upsert(rows, uid, text, now) ==
    IF ActuarOf(rows, uid) = {}
    THEN Insert(rows, [id |-> NextId(rows), user_id |-> uid, text |-> text,
                       updated_at |-> now])
    ELSE Update(rows, (CHOOSE r \in ActuarOf(rows, uid) : TRUE).id, text, now)

\* A response that turns a failed artifact write into a failure of the call.
PublishedOrFailed(row, urls) ==
    IF "error" \in DOMAIN urls THEN Error(500, urls.error)
    ELSE Ok(200, [success |-> TRUE, text |-> Text(row.text),
                  updated_at |-> IsoFormat(row.updated_at), static |-> urls])

\* The 200 of post_actuar for the row as reloaded after the commit.
Published(row, urls) ==
    Ok(200, [success |-> TRUE, text |-> Text(row.text),
             updated_at |-> IsoFormat(row.updated_at), static |-> urls])

post_actuar(cr, data, io) ==
    LET uid  == require_user(cr)
        text == Get(data, "text")
    IN  IF uid = NoUser THEN Reject("post_actuar", cr)
        ELSE /\ call' = CallWith("post_actuar", cr, uid, data, io)
             /\ IF text = Null
                THEN /\ resp' = Error(400, "text required")
                     /\ UNCHANGED <<actuar, static_files>>
                ELSE \E u \in UserById(ab_user, uid) :
                     LET saved   == Upsert(actuar, uid, PyStr(text), clock)
                         row     == CHOOSE r \in ActuarOf(saved, uid) : TRUE
                         written == _write_actuar_static(
                                        static_files, _derive_sanitized_username(u),
                                        row.text, io)
                     IN  /\ actuar' = saved
                         /\ static_files' = written.files
                         /\ resp' = Published(row, written.urls)
             /\ UNCHANGED <<ab_user, SESSIONS, decks, routines, ACTUAR2_VALUES,
                            clock, threads>>

\* post_actuar as it runs beside other requests, each request thread with
\* its own session.  threads[p] is the request that worker p is serving:
\*   pc     where it stands: "commit" (row queried, change pending), "reload"
\*          (committed; row.text is expired), "write" (row.text read again)
\*   user   request.current_user.id        text   str(text)
\*   row    id of the row the query returned, 0 when it returned none
\*   loaded the text that row was loaded with
\*   seen   row.text as read again after the commit
\*   raced  whether another request of the same user has changed the table
\*          since this one queried it
post_actuar_begin(p, cr, data) ==
    LET uid  == require_user(cr)
        text == Get(data, "text")
        rows == ActuarOf(actuar, uid)
    IN  /\ p \notin DOMAIN threads
        /\ IF uid = NoUser THEN Reject("post_actuar", cr)
           ELSE IF text = Null
           THEN /\ call' = Call("post_actuar", cr, uid)
                /\ resp' = Error(400, "text required")
                /\ UNCHANGED <<stores, clock, threads>>
           ELSE \E found \in IF rows = {} THEN {[id |-> 0, text |-> <<>>]} ELSE rows :
                /\ threads' = [q \in DOMAIN threads \cup {p} |->
                                 IF q = p
                                 THEN [pc |-> "commit", user |-> uid, cr |-> cr,
                                       text |-> PyStr(text), row |-> found.id,
                                       loaded |-> found.text, seen |-> <<>>,
                                       raced |-> FALSE]
                                 ELSE threads[q]]
                /\ UNCHANGED <<stores, clock, call, resp>>

\* db.session.commit(): the INSERT or the UPDATE of the unit of work; the
\* IntegrityError of a second INSERT for the user is answered by 500.
post_actuar_commit(p) ==
    /\ p \in DOMAIN threads
    /\ threads[p].pc = "commit"
    /\ LET me    == threads[p]
           saved == IF me.row = 0
                    THEN Insert(actuar, [id |-> NextId(actuar), user_id |-> me.user,
                                         text |-> me.text, updated_at |-> clock])
                    ELSE IF me.text = me.loaded THEN actuar
                    ELSE Update(actuar, me.row, me.text, clock)
       IN  IF me.row = 0 /\ saved = actuar
           THEN /\ call' = Call("post_actuar", me.cr, me.user)
                /\ resp' = Error(500, "failed to save")
                /\ threads' = [q \in DOMAIN threads \ {p} |-> threads[q]]
                /\ UNCHANGED <<stores, clock>>
           ELSE /\ actuar' = saved
                /\ threads' = [q \in DOMAIN threads |->
                                 IF q = p THEN [me EXCEPT !.pc = "reload"]
                                 ELSE IF threads[q].user = me.user /\ saved # actuar
                                 THEN [threads[q] EXCEPT !.raced = TRUE]
                                 ELSE threads[q]]
                /\ UNCHANGED <<ab_user, SESSIONS, decks, routines, static_files,
                               ACTUAR2_VALUES, clock, call, resp>>

\* row.text after the commit: the instance is expired and read again.
post_actuar_reload(p) ==
    /\ p \in DOMAIN threads
    /\ threads[p].pc = "reload"
    /\ \E row \in ActuarOf(actuar, threads[p].user) :
          threads' = [threads EXCEPT ![p].pc = "write", ![p].seen = row.text]
    /\ UNCHANGED <<stores, clock, call, resp>>

\* _write_actuar_static(san_user, row.text) and the response.
post_actuar_write(p, io) ==
    /\ p \in DOMAIN threads
    /\ threads[p].pc = "write"
    /\ \E u \in UserById(ab_user, threads[p].user) :
       \E row \in ActuarOf(actuar, u.id) :
          LET written == _write_actuar_static(
                             static_files, _derive_sanitized_username(u),
                             threads[p].seen, io)
          IN  /\ static_files' = written.files
              /\ call' = Call("post_actuar", threads[p].cr, u.id)
              /\ resp' = Published([row EXCEPT !.text = threads[p].seen], written.urls)
    /\ threads' = [q \in DOMAIN threads \ {p} |-> threads[q]]
    /\ UNCHANGED <<tables, SESSIONS, ACTUAR2_VALUES, clock>>

\* str.strip()
Whitespace == {" ", "\t", "\n", "\r"}
RECURSIVE LStrip(_)
LStrip(s) == IF s # <<>> /\ Head(s) \in Whitespace THEN LStrip(Tail(s)) ELSE s
RECURSIVE RStrip(_)
RStrip(s) ==
    IF s # <<>> /\ s[Len(s)] \in Whitespace THEN RStrip(SubSeq(s, 1, Len(s) - 1)) ELSE s
Strip(s) == RStrip(LStrip(s))

\* SQL LIKE: '%' stands for any text, '_' for any one character.
RECURSIVE Like(_, _)
Like(s, pattern) ==
    IF pattern = <<>> THEN s = <<>>
    ELSE IF Head(pattern) = "%"
    THEN \E i \in 1..(Len(s) + 1) : Like(SubSeq(s, i, Len(s)), Tail(pattern))
    ELSE /\ s # <<>>
         /\ Head(pattern) = "_" \/ LowerChar(Head(pattern)) = LowerChar(Head(s))
         /\ Like(Tail(s), Tail(pattern))

\* The users the three lookups of get_actuar_public may return for q: the
\* matches of the first rule that has any (.first() takes one of them).
LookupUsers(users, q) ==
    LET byEmail == {u \in users : Lower(u.email) = Lower(q)}
        byName  == {u \in users : Lower(u.username) = Lower(q)}
        byLocal == IF "@" \in Range(q) THEN {}
                   ELSE {u \in users : Like(Lower(u.email), Lower(q) \o <<"@", "%">>)}
    IN  IF byEmail # {} THEN byEmail
        ELSE IF byName # {} THEN byName
        ELSE byLocal

\* Actuar.to_dict(username)
actuar_to_dict(row, username) ==
    [user_id |-> row.user_id, username |-> username, text |-> Text(row.text),
     updated_at |-> IsoFormat(row.updated_at)]

\* Every answer get_actuar_public can give for the tables as they are.
LookupResponses(users, rows, username) ==
    LET found == LookupUsers(users, Strip(username))
    IN  IF Strip(username) = <<>> THEN {Error(400, "username required")}
        ELSE IF found = {} THEN {Error(404, "user not found")}
        ELSE UNION {
               IF ActuarOf(rows, user.id) = {}
               THEN {Ok(200, [username |-> username, text |-> Null,
                              updated_at |-> Null])}
               ELSE {Ok(200, actuar_to_dict(row, username)) :
                        row \in ActuarOf(rows, user.id)}
               : user \in found }

get_actuar_public(username) ==
    /\ call' = PublicCallFor("get_actuar_public", username)
    /\ \E answer \in LookupResponses(ab_user, actuar, username) : resp' = answer
    /\ UNCHANGED <<stores, clock, threads>>

-----------------------------------------------------------------------------
(* Credits: GET and POST /api/user/credits.                                *)

get_credits(cr) ==
    LET uid == require_user(cr)
    IN  IF uid = NoUser THEN Reject("get_credits", cr)
        ELSE \E u \in UserById(ab_user, uid) :
             /\ call' = Call("get_credits", cr, uid)
             /\ resp' = Ok(200, [credits |-> u.credits])
             /\ UNCHANGED <<stores, clock, threads>>

add_credits(cr, data) ==
    LET uid    == require_user(cr)
        amount == GetOr(data, "amount", Num(0))
    IN  IF uid = NoUser THEN Reject("add_credits", cr)
        ELSE \E u \in UserById(ab_user, uid) :
             /\ call' = Call("add_credits", cr, uid)
             /\ IF amount.t # "int"      \* int(None), int([...]): TypeError
                THEN resp' = ServerError /\ UNCHANGED ab_user
                ELSE IF amount.v <= 0
                THEN resp' = Error(400, "amount must be positive") /\ UNCHANGED ab_user
                ELSE /\ ab_user' = (ab_user \ {u})
                                      \cup {[u EXCEPT !.credits = u.credits + amount.v]}
                     /\ resp' = Ok(200, [credits |-> u.credits + amount.v])
             /\ UNCHANGED <<SESSIONS, decks, routines, actuar, static_files,
                            ACTUAR2_VALUES, clock, threads>>

-----------------------------------------------------------------------------
(* Actuar2: POST /api/actuar2/init and POST /api/actuar2.  ACTUAR2_VALUES  *)
(* maps a user id to the set of tokens that user has initialised.          *)

\* The characters of a token, in code point order.
TokenChars == <<"-">> \o DigitChars \o <<"_">> \o LowerChars
CodePoint(c) == CHOOSE i \in DOMAIN TokenChars : TokenChars[i] = c

\* a < b for two tokens, as Python compares str
RECURSIVE TokenLess(_, _)
TokenLess(a, b) ==
    IF b = <<>> THEN FALSE
    ELSE IF a = <<>> THEN TRUE
    ELSE IF Head(a) # Head(b) THEN CodePoint(Head(a)) < CodePoint(Head(b))
    ELSE TokenLess(Tail(a), Tail(b))

\* sorted(set of tokens)
RECURSIVE Sorted(_)
Sorted(S) ==
    IF S = {} THEN <<>>
    ELSE LET least == CHOOSE a \in S : \A b \in S \ {a} : TokenLess(a, b)
         IN  <<least>> \o Sorted(S \ {least})

\* f"{v}": the characters as one string
RECURSIVE Joined(_)
Joined(s) == IF s = <<>> THEN "" ELSE Head(s) \o Joined(Tail(s))

\* A loop that passes over the entries it cannot accept.
RECURSIVE CleanedSkipping(_, _)
CleanedSkipping(values, done) ==
    IF values = <<>> THEN [error |-> "", tokens |-> done]
    ELSE IF Head(values).t # "text" \/ _sanitize_token(Head(values).v) = <<>>
    THEN CleanedSkipping(Tail(values), done)
    ELSE CleanedSkipping(Tail(values), done \cup {_sanitize_token(Head(values).v)})

\* The answer of the loop over values: the first entry that is refused
\* decides it; the cleaned tokens when none is.
RECURSIVE Cleaned(_, _)
Cleaned(values, done) ==
    IF values = <<>> THEN [error |-> "", tokens |-> done]
    ELSE IF Head(values).t # "text"
    THEN [error |-> "all values must be strings", tokens |-> {}]
    ELSE IF _sanitize_token(Head(values).v) = <<>>
    THEN [error |-> "invalid value: " \o Joined(Head(values).v), tokens |-> {}]
    ELSE Cleaned(Tail(values), done \cup {_sanitize_token(Head(values).v)})

\* An assignment that adds the tokens to those the user already has.
MergeValues(values, uid, tokens) ==
    [u \in DOMAIN values \cup {uid} |->
        IF u # uid THEN values[u]
        ELSE IF u \in DOMAIN values THEN values[u] \cup tokens ELSE tokens]

\* An assignment that rebinds the dictionary to one holding this user alone.
SetValuesAlone(values, uid, tokens) == [u \in {uid} |-> tokens]

\* ACTUAR2_VALUES[user_id] = tokens
SetValues(values, uid, tokens) ==
    [u \in DOMAIN values \cup {uid} |-> IF u = uid THEN tokens ELSE values[u]]

actuar2_init(cr, data) ==
    LET uid    == require_user(cr)
        values == OrElse(OrElse(Get(data, "values"), Get(data, "list")),
                         Get(data, "strings"))
    IN  IF uid = NoUser THEN Reject("actuar2_init", cr)
        ELSE /\ call' = CallWith("actuar2_init", cr, uid, data, "none")
             /\ IF values.t # "list" \/ ~Truthy(values)
                THEN /\ resp' = Error(400, "values must be a non-empty list of strings")
                     /\ UNCHANGED ACTUAR2_VALUES
                ELSE IF Cleaned(values.v, {}).error # ""
                THEN /\ resp' = Error(400, Cleaned(values.v, {}).error)
                     /\ UNCHANGED ACTUAR2_VALUES
                ELSE /\ ACTUAR2_VALUES' =
                            SetValues(ACTUAR2_VALUES, uid, Cleaned(values.v, {}).tokens)
                     /\ resp' = Ok(200, [success |-> TRUE,
                                         values |-> Sorted(Cleaned(values.v, {}).tokens)])
             /\ UNCHANGED <<tables, SESSIONS, static_files, clock, threads>>

\* A lookup that finds a token whoever initialised it.
AllowedValuesOfAnyone(values, uid) == UNION {values[u] : u \in DOMAIN values}

\* ACTUAR2_VALUES.get(user_id): the set, or the empty set for None
AllowedValues(values, uid) == IF uid \in DOMAIN values THEN values[uid] ELSE {}

\* A read that takes the user's entry out of the dictionary.
PopValues(values, uid) ==
    [allowed |-> AllowedValues(values, uid),
     values  |-> [u \in DOMAIN values \ {uid} |-> values[u]]]

\* allowed = ACTUAR2_VALUES.get(user_id): what is read, and the dictionary
\* the read leaves.
GetValues(values, uid) ==
    [allowed |-> AllowedValues(values, uid), values |-> values]

actuar2_post(cr, data, io) ==
    LET uid   == require_user(cr)
        value == OrElse(OrElse(OrElse(Get(data, "value"), Get(data, "string")),
                               Get(data, "item")), Get(data, "key"))
        text  == Get(data, "text")
        got   == GetValues(ACTUAR2_VALUES, uid)
    IN  IF uid = NoUser THEN Reject("actuar2_post", cr)
        ELSE /\ call' = CallWith("actuar2_post", cr, uid, data, io)
             /\ IF value.t # "text" \/ text = Null
                THEN /\ resp' = Error(400, "value and text are required")
                     /\ UNCHANGED <<static_files, ACTUAR2_VALUES>>
                ELSE IF _sanitize_token(value.v) = <<>>
                THEN /\ resp' = Error(400,
                            "value must include letters, digits, dash or underscore")
                     /\ UNCHANGED <<static_files, ACTUAR2_VALUES>>
                ELSE IF _sanitize_token(value.v) \notin got.allowed
                THEN /\ resp' = Error(400,
                            "value not initialized for user. Call /api/actuar2/init first.")
                     /\ ACTUAR2_VALUES' = got.values
                     /\ UNCHANGED static_files
                ELSE \E u \in UserById(ab_user, uid) :
                     LET combined == _derive_sanitized_username(u) \o <<"_">>
                                        \o _sanitize_token(value.v)
                         written  == _write_actuar_static(static_files, combined,
                                                          PyStr(text), io)
                     IN  /\ ACTUAR2_VALUES' = got.values
                         /\ static_files' = written.files
                         /\ resp' = IF "error" \in DOMAIN written.urls
                                    THEN Error(500, written.urls.error)
                                    ELSE Ok(200, [success |-> TRUE,
                                                  value |-> _sanitize_token(value.v),
                                                  static |-> written.urls])
             /\ UNCHANGED <<tables, SESSIONS, clock, threads>>

-----------------------------------------------------------------------------
(* The initial state: a fresh process on an empty database.                *)

NoSessions == [t \in {} |-> NoUser]
NoFiles == [f \in {} |-> Null]
NoValues == [u \in {} |-> {}]
NoThreads == [p \in {} |-> Null]

Start ==
    /\ SESSIONS = NoSessions
    /\ ACTUAR2_VALUES = NoValues
    /\ clock = 0
    /\ threads = NoThreads
    /\ call = NotCalled
    /\ resp = Ok(0, Null)

EmptyDatabase ==
    /\ ab_user = {}
    /\ decks = {}
    /\ routines = {}
    /\ actuar = {}
    /\ static_files = NoFiles

-----------------------------------------------------------------------------
(* SpecAuth: registration, login, logout and a guarded read, from an empty *)
(* database.                                                               *)

\* Two addresses that differ only in case: register compares exactly, so
\* both can be registered, while auth_user_db and the public lookup compare
\* case-insensitively.
AuthEmails == { <<"a", "l", "@", "x">>, <<"A", "L", "@", "x">> }
AuthPasswords == {"pw1"}
WrongPassword == "pw2"

NeverIssued == "token-0-0"

\* Tokens a client can hold: every token login can have issued so far to a
\* registered user, and one that was never issued.
KnownTokens ==
    {Token(u.id, now) : u \in ab_user, now \in 0..clock} \cup {NeverIssued}

\* Credentials a request can carry: a session cookie, or an Authorization
\* header, or a query token, or nothing.
AllCredentials ==
    {Credentials(u.id, NoToken, NoToken) : u \in ab_user}
    \cup {Credentials(NoUser, h, NoToken) : h \in {NoToken} \cup KnownTokens}
    \cup {Credentials(NoUser, NoToken, q) : q \in KnownTokens}

InitAuth == Start /\ EmptyDatabase

NextAuth ==
    \/ \E email \in AuthEmails \cup {<<>>}, password \in AuthPasswords \cup {""} :
          register(email, password, "ok")
    \/ \E email \in AuthEmails \cup {<<>>},
          password \in AuthPasswords \cup {WrongPassword, ""} :
          login(email, password)
    \/ \E cr \in AllCredentials : logout(cr)
    \/ \E cr \in AllCredentials : get_user(cr)
    \/ Tick

SpecAuth == InitAuth /\ [][NextAuth]_vars

-----------------------------------------------------------------------------
(* SpecSeed: two people register on an empty database, log in and list     *)
(* their routines; the commit of the seeded routines may fail.             *)

SeedEmails == {<<"a", "@", "x">>, <<"b", "@", "x">>}

SeedCredentials ==
    {Credentials(NoUser, Token(uid, 0), NoToken) : uid \in 1..2}

NextSeed ==
    \/ \E email \in SeedEmails, seed \in SeedOutcomes : register(email, "pw1", seed)
    \/ \E email \in SeedEmails : login(email, "pw1")
    \/ \E cr \in SeedCredentials : list_routines(cr)

SpecSeed == InitAuth /\ [][NextSeed]_vars

-----------------------------------------------------------------------------
(* Claims about the session registry (SpecAuth).                           *)

\* The requests that carry the token t and nothing else.
OnlyToken(t) ==
    {Credentials(NoUser, t, NoToken), Credentials(NoUser, NoToken, t),
     Credentials(NoUser, t, t)}

\* C1: after a logout that presents token t, t is not in the registry
\* (resolving it yields absent), and a guarded request made right after it
\* with t as its only credential is answered 401 'authentication required'
\* without the endpoint function being called.
C1_RevokedTokenIsRejected ==
    [][/\ call'.op = "logout" => call'.tok \notin DOMAIN SESSIONS'
       /\ call.op = "logout" =>
            \A cr \in OnlyToken(call.tok) :
                (logout(cr) \/ get_user(cr)) =>
                    (resp' = AuthRequired /\ ~call'.ran /\ SESSIONS' = SESSIONS)
      ]_vars

\* A logout authenticated by a live token has just removed that token.
C1_Witness ==
    /\ call.op = "logout"
    /\ call.ran
    /\ call.via = "token"
    /\ call.tok \notin DOMAIN SESSIONS

\* C2: right after a registration that succeeded, a login with the same
\* email and password succeeds, and the guard resolves the token it returns
\* to the user that was just registered.
C2_RegisterThenLogin ==
    [][\A email \in AuthEmails, password \in AuthPasswords :
        (call'.op = "register" /\ resp'.status = 201 /\ register(email, password, "ok")) =>
            LET result == LoginResult(ab_user', SESSIONS', clock', email, password)
            IN  /\ result.resp.status = 200
                /\ result.resp.body.id = resp'.body.id
                /\ Resolve(ab_user', result.sessions,
                           Credentials(NoUser, result.resp.body.token, NoToken))
                     = resp'.body.id
                /\ \E u \in ab_user' \ ab_user :
                        u.id = resp'.body.id /\ u.email = email
      ]_vars

\* A login has succeeded and its token resolves to the user it names.
C2_Witness ==
    /\ call.op = "login"
    /\ resp.status = 200
    /\ Resolve(ab_user, SESSIONS, Credentials(NoUser, resp.body.token, NoToken))
         = resp.body.id
    /\ Cardinality(ab_user) = 2

\* C5: every successful login issues a token that is not in the registry
\* at that moment (so that a second login of the same user adds a second
\* binding).
C5_TokenIsFresh ==
    [][\A email \in AuthEmails, password \in AuthPasswords :
        (call'.op = "login" /\ resp'.status = 200 /\ login(email, password)) =>
            /\ resp'.body.token \notin DOMAIN SESSIONS
            /\ Cardinality(DOMAIN SESSIONS') = Cardinality(DOMAIN SESSIONS) + 1
      ]_vars

\* C6: no step rebinds a token of the registry to another user, and the
\* token a login returns is bound to the id of the user who logged in.
C6_TokenKeepsItsUser ==
    [][/\ \A t \in DOMAIN SESSIONS \cap DOMAIN SESSIONS' : SESSIONS'[t] = SESSIONS[t]
       /\ \A email \in AuthEmails, password \in AuthPasswords :
            (call'.op = "login" /\ resp'.status = 200 /\ login(email, password)) =>
                /\ resp'.body.token \in DOMAIN SESSIONS'
                /\ \E u \in ab_user :
                     /\ u.email = email
                     /\ SESSIONS'[resp'.body.token] = u.id
      ]_vars

\* Two users hold live tokens at once.
C6_Witness ==
    /\ call.op = "login"
    /\ \E t1, t2 \in DOMAIN SESSIONS : SESSIONS[t1] # SESSIONS[t2]


-----------------------------------------------------------------------------
(* SpecRepo: two signed-in users working on decks and routines.            *)

MaxRows == 1     \* ids a table hands out are kept within 1..MaxRows

RepoEmails == << <<"a", "@", "x">>, <<"b", "@", "x">> >>

\* Both users have registered and logged in at time 0, and have deleted the
\* routines seeded at registration.
RepoUsers == add_user(add_user({}, RepoEmails[1], "pw1"), RepoEmails[2], "pw2")
RepoSessions == Bind(Bind(NoSessions, Token(1, 0), 1), Token(2, 0), 2)

RepoCredentials ==
    {Credentials(NoUser, Token(1, 0), NoToken), Credentials(NoUser, NoToken, Token(2, 0))}

DeckBodies ==
    { [name |-> Str("D1")],
      [stack |-> Str("D1"), order |-> List(<<>>)],
      [description |-> Null],
      [name |-> Str("D1"), nodes |-> Str("n1")] }

DeckUpdates ==
    { [name |-> Str("D2")], [name |-> Null], [nodes |-> List(<<>>)] }

RoutineBodies ==
    { [name |-> Str("R1"), deck_name |-> Str("D1")],
      [deck_name |-> Str("D1")],
      [name |-> Str("R1"), deck_name |-> Str("D1"), nodes |-> Str("n1")],
      [name |-> Str("R1"), deck_name |-> Str("D1"), deck_order |-> Null] }
    \cup { [name |-> Str("R1"), deck_name |-> Str("D1"), deck_id |-> Num(i)] :
             i \in 1..MaxRows }

RoutineUpdates ==
    { [deck_id |-> Null], [name |-> Null] }
    \cup { [deck_id |-> Num(i)] : i \in 1..MaxRows }

InitRepo ==
    /\ ACTUAR2_VALUES = NoValues
    /\ clock = 0
    /\ threads = NoThreads
    /\ call = NotCalled
    /\ resp = Ok(0, Null)
    /\ SESSIONS = RepoSessions
    /\ ab_user = RepoUsers
    /\ decks = {}
    /\ routines = {}
    /\ actuar = {}
    /\ static_files = NoFiles

NextRepo ==
    \/ \E cr \in RepoCredentials : list_decks(cr)
    \/ \E cr \in RepoCredentials, data \in DeckBodies :
          NextId(decks) <= MaxRows /\ create_deck(cr, data)
    \/ \E cr \in RepoCredentials, id \in 1..MaxRows : get_deck(cr, id)
    \/ \E cr \in RepoCredentials, id \in 1..MaxRows, data \in DeckUpdates :
          update_deck(cr, id, data)
    \/ \E cr \in RepoCredentials, id \in 1..MaxRows : delete_deck(cr, id)
    \/ \E cr \in RepoCredentials : list_routines(cr)
    \/ \E cr \in RepoCredentials, data \in RoutineBodies :
          NextId(routines) <= MaxRows /\ create_routine(cr, data)
    \/ \E cr \in RepoCredentials, id \in 1..MaxRows : get_routine(cr, id)
    \/ \E cr \in RepoCredentials, id \in 1..MaxRows, data \in RoutineUpdates :
          update_routine(cr, id, data)
    \/ \E cr \in RepoCredentials, id \in 1..MaxRows : delete_routine(cr, id)

SpecRepo == InitRepo /\ [][NextRepo]_vars


-----------------------------------------------------------------------------
(* SpecEdit: user 1 editing rows that exist.  User 2 owns deck 1; user 1   *)
(* owns deck 2 (D1), routine 1 (R1, attached to deck 2) and routine 2 (R2, *)
(* attached to no deck).  Deck 2 holds the highest id, so a deck created   *)
(* after its deletion is given the id 2 again.                             *)

EditDecks ==
    { [id |-> 1, name |-> Str("D0"), description |-> Null, owner_id |-> 2,
       nodes |-> List(<<>>)],
      [id |-> 2, name |-> Str("D1"), description |-> Null, owner_id |-> 1,
       nodes |-> List(<<"n1">>)] }

EditRoutines ==
    { [id |-> 1, name |-> Str("R1"), stack |-> Str("D1"), deck_id |-> Num(2),
       nodes |-> List(<<"n1">>), deck_order |-> Null, owner_id |-> 1],
      [id |-> 2, name |-> Str("R2"), stack |-> Null, deck_id |-> Null,
       nodes |-> List(<<>>), deck_order |-> Null, owner_id |-> 1] }

EditCredentials == {Credentials(NoUser, Token(1, 0), NoToken)}

DeckEdits ==
    { [name |-> Str("D2"), description |-> Str("d")],
      [nodes |-> List(<<"n2">>)],
      [name |-> Str("D9"), nodes |-> Str("n1")] }

RoutineEdits ==
    { [name |-> Str("R9"), stack |-> Str("S9")],
      [nodes |-> List(<<"n2">>)],
      [deck_id |-> Num(2)],
      [deck_id |-> Null],
      [deck_id |-> Num(1)],
      [name |-> Str("R8"), nodes |-> List(<<"n3">>), deck_id |-> Num(3)],
      [name |-> Str("R8"), nodes |-> Str("n1")],
      [stack |-> Str("S8"), deck_order |-> Str("x")] }

InitEdit ==
    /\ ACTUAR2_VALUES = NoValues
    /\ clock = 0
    /\ threads = NoThreads
    /\ call = NotCalled
    /\ resp = Ok(0, Null)
    /\ SESSIONS = RepoSessions
    /\ ab_user = RepoUsers
    /\ decks = EditDecks
    /\ routines = EditRoutines
    /\ actuar = {}
    /\ static_files = NoFiles

NextEdit ==
    \/ \E cr \in EditCredentials, id \in 1..2, data \in DeckEdits :
          update_deck(cr, id, data)
    \/ \E cr \in EditCredentials, id \in 1..2 : delete_deck(cr, id)
    \/ \E cr \in EditCredentials :
          DecksOf(1) = {} /\ create_deck(cr, [name |-> Str("D3")])
    \/ \E cr \in EditCredentials, id \in 1..2 : get_routine(cr, id)
    \/ \E cr \in EditCredentials, id \in 1..2, data \in RoutineEdits :
          update_routine(cr, id, data)

SpecEdit == InitEdit /\ [][NextEdit]_vars


-----------------------------------------------------------------------------
(* SpecRegistry: login, logout and actuar2_init of two users served by two *)
(* request threads, a step per access to SESSIONS and ACTUAR2_VALUES.      *)

\* Worker p serves the requests of the user with id p.  threads[p] is the
\* request it is serving and what the requests it has served have done:
\*   pc        "idle", or where the request stands: "bind" (credentials
\*             verified and token formatted), "pop" (require_user passed),
\*             "store" (require_user passed and the values cleaned)
\*   cr        the credentials of the request
\*   token     the token to bind or to pop       tokens  the cleaned values
\*   live      the tokens this user's logins have bound and its logouts have
\*             not popped
\*   permitted the set this user's last completed init has stored (as a
\*             dictionary with at most this user's entry)
RegistryWorkers == {1, 2}

Idle(live, permitted) ==
    [pc |-> "idle", cr |-> NoCredentials, token |-> NoToken, tokens |-> {},
     live |-> live, permitted |-> permitted]

\* What a client of user p sends: its session cookie, its token, or both.
OwnCredentials(p) ==
    { Credentials(p, NoToken, NoToken),
      Credentials(NoUser, Token(p, 0), NoToken),
      Credentials(p, NoToken, Token(p, 0)) }

RegistryInits ==
    { [values |-> List(<<Text(<<"a">>)>>)],
      [values |-> List(<<Text(<<"b">>)>>)],
      [values |-> List(<<>>)] }

\* login up to the token: the checks, and f"token-{user.id}-{...}".
login_begin(p, password) ==
    LET result == LoginResult(ab_user, SESSIONS, clock, RepoEmails[p], password)
    IN  /\ threads[p].pc = "idle"
        /\ IF result.resp.status # 200
           THEN /\ call' = PublicCall("login")
                /\ resp' = result.resp
                /\ UNCHANGED <<stores, clock, threads>>
           ELSE /\ threads' = [threads EXCEPT ![p].pc = "bind",
                                              ![p].token = result.resp.body.token]
                /\ UNCHANGED <<stores, clock, call, resp>>

\* SESSIONS[token] = user.id, and the answer.
login_bind(p) ==
    /\ threads[p].pc = "bind"
    /\ SESSIONS' = Bind(SESSIONS, threads[p].token, p)
    /\ call' = PublicCall("login")
    /\ resp' = Ok(200, [id |-> p, email |-> RepoEmails[p], token |-> threads[p].token])
    /\ threads' = [threads EXCEPT
                     ![p] = Idle(threads[p].live \cup {threads[p].token},
                                 threads[p].permitted)]
    /\ UNCHANGED <<tables, static_files, ACTUAR2_VALUES, clock>>

\* logout up to the token: require_user, and the header or query token.
logout_begin(p, cr) ==
    /\ threads[p].pc = "idle"
    /\ IF require_user(cr) = NoUser THEN Reject("logout", cr)
       ELSE /\ threads' = [threads EXCEPT ![p].pc = "pop", ![p].cr = cr,
                                          ![p].token = PresentedToken(cr)]
            /\ UNCHANGED <<stores, clock, call, resp>>

\* SESSIONS.pop(token, None), and the answer.
logout_pop(p) ==
    /\ threads[p].pc = "pop"
    /\ SESSIONS' = Pop(SESSIONS, threads[p].token)
    /\ call' = Call("logout", threads[p].cr, p)
    /\ resp' = Ok(200, [success |-> TRUE])
    /\ threads' = [threads EXCEPT
                     ![p] = Idle(threads[p].live \ {threads[p].token},
                                 threads[p].permitted)]
    /\ UNCHANGED <<tables, static_files, ACTUAR2_VALUES, clock>>

\* actuar2_init up to the cleaned list: require_user and the validation.
actuar2_init_begin(p, cr, data) ==
    LET uid    == require_user(cr)
        values == OrElse(OrElse(Get(data, "values"), Get(data, "list")),
                         Get(data, "strings"))
    IN  /\ threads[p].pc = "idle"
        /\ IF uid = NoUser THEN Reject("actuar2_init", cr)
           ELSE IF values.t # "list" \/ ~Truthy(values)
           THEN /\ call' = CallWith("actuar2_init", cr, uid, data, "none")
                /\ resp' = Error(400, "values must be a non-empty list of strings")
                /\ UNCHANGED <<stores, clock, threads>>
           ELSE IF Cleaned(values.v, {}).error # ""
           THEN /\ call' = CallWith("actuar2_init", cr, uid, data, "none")
                /\ resp' = Error(400, Cleaned(values.v, {}).error)
                /\ UNCHANGED <<stores, clock, threads>>
           ELSE /\ threads' = [threads EXCEPT
                                 ![p].pc = "store", ![p].cr = cr,
                                 ![p].tokens = Cleaned(values.v, {}).tokens]
                /\ UNCHANGED <<stores, clock, call, resp>>

\* ACTUAR2_VALUES[request.current_user.id] = set(cleaned), and the answer.
actuar2_init_store(p) ==
    /\ threads[p].pc = "store"
    /\ ACTUAR2_VALUES' = SetValues(ACTUAR2_VALUES, p, threads[p].tokens)
    /\ call' = Call("actuar2_init", threads[p].cr, p)
    /\ resp' = Ok(200, [success |-> TRUE,
                        values |-> Sorted(AllowedValues(ACTUAR2_VALUES', p))])
    /\ threads' = [threads EXCEPT
                     ![p] = Idle(threads[p].live, [u \in {p} |-> threads[p].tokens])]
    /\ UNCHANGED <<tables, SESSIONS, static_files, clock>>

InitRegistry ==
    /\ ACTUAR2_VALUES = NoValues
    /\ clock = 0
    /\ threads = [p \in RegistryWorkers |-> Idle({}, NoValues)]
    /\ call = NotCalled
    /\ resp = Ok(0, Null)
    /\ SESSIONS = NoSessions
    /\ ab_user = RepoUsers
    /\ decks = {}
    /\ routines = {}
    /\ actuar = {}
    /\ static_files = NoFiles

NextRegistry ==
    \/ \E p \in RegistryWorkers, password \in {"pw1", "pw2"} : login_begin(p, password)
    \/ \E p \in RegistryWorkers : login_bind(p)
    \/ \E p \in RegistryWorkers : \E cr \in OwnCredentials(p) : logout_begin(p, cr)
    \/ \E p \in RegistryWorkers : logout_pop(p)
    \/ \E p \in RegistryWorkers : \E cr \in OwnCredentials(p), data \in RegistryInits :
          actuar2_init_begin(p, cr, data)
    \/ \E p \in RegistryWorkers : actuar2_init_store(p)

SpecRegistry == InitRegistry /\ [][NextRegistry]_vars

-----------------------------------------------------------------------------

(* SpecAttach: create_routine and update_routine naming a deck, a step for *)
(* the deck query and a step for the commit, beside delete_deck.           *)

\* threads[p] is the request worker p is serving between its deck query and
\* its commit:
\*   op    "create_routine" or "update_routine"    cr, data  credentials, body
\*   user  request.current_user.id
\*   row   the routine update_routine loaded (Null for create_routine)
\*   deck  what the deck query returned: a set with the row, or empty
AttachWorkers == {1, 2}

AttachCredentials == {Credentials(NoUser, Token(1, 0), NoToken)}

AttachDecks ==
    { [id |-> 1, name |-> Str("D1"), description |-> Null, owner_id |-> 1,
       nodes |-> List(<<>>)],
      [id |-> 2, name |-> Str("D2"), description |-> Null, owner_id |-> 1,
       nodes |-> List(<<>>)] }

AttachRoutines ==
    { [id |-> 1, name |-> Str("R1"), stack |-> Null, deck_id |-> Null,
       nodes |-> List(<<>>), deck_order |-> Null, owner_id |-> 1] }

AttachBodies ==
    { [name |-> Str("R2"), deck_id |-> Num(1)],
      [name |-> Str("R2"), deck_id |-> Num(2)],
      [name |-> Str("R2"), stack |-> Str("D1")],
      [deck_id |-> Num(1)] }

\* create_routine up to the deck query.
create_routine_check(p, cr, data) ==
    LET uid     == require_user(cr)
        name    == Get(data, "name")
        stack   == OrElse(Get(data, "stack"), Get(data, "deck_name"))
        deck_id == Get(data, "deck_id")
        nodes   == OrElse(Get(data, "nodes"), List(<<>>))
        byId    == DeckForRoutine(deck_id, uid)
        byName  == IF Truthy(stack) THEN DeckNamed(stack, uid) ELSE {}
        refuse(answer) == /\ call' = CallOnWith("create_routine", cr, uid, 0, data)
                          /\ resp' = answer
                          /\ UNCHANGED <<stores, clock, threads>>
    IN  /\ p \notin DOMAIN threads
        /\ IF uid = NoUser THEN Reject("create_routine", cr)
           ELSE IF ~Truthy(name) THEN refuse(Error(400, "name required"))
           ELSE IF nodes.t # "list" THEN refuse(Error(400, "nodes must be a list"))
           ELSE IF "deck_order" \in DOMAIN data /\ data["deck_order"].t # "list"
           THEN refuse(Error(400, "deck_order must be a list"))
           ELSE IF Truthy(deck_id) /\ byId = {}
           THEN refuse(Error(404, "deck not found or unauthorized"))
           ELSE \E deck \in IF Truthy(deck_id) THEN {{d} : d \in byId}
                            ELSE IF byName = {} THEN {{}}
                            ELSE {{d} : d \in byName} :   \* .first()
                /\ threads' = [q \in DOMAIN threads \cup {p} |->
                                 IF q = p
                                 THEN [op |-> "create_routine", cr |-> cr,
                                       data |-> data, user |-> uid, row |-> Null,
                                       deck |-> deck]
                                 ELSE threads[q]]
                /\ UNCHANGED <<stores, clock, call, resp>>

\* db.session.add(routine); db.session.commit(): the INSERT, which no
\* foreign key check refuses.
create_routine_commit(p) ==
    /\ p \in DOMAIN threads
    /\ threads[p].op = "create_routine"
    /\ LET me      == threads[p]
           routine == NewRoutine(me.data, me.user, me.deck)
       IN  /\ routines' = routines \cup {routine}
           /\ call' = CallOnWith("create_routine", me.cr, me.user, 0, me.data)
           /\ resp' = Ok(201, routine_to_dict(routine))
    /\ threads' = [q \in DOMAIN threads \ {p} |-> threads[q]]
    /\ UNCHANGED <<ab_user, SESSIONS, decks, actuar, static_files, ACTUAR2_VALUES,
                   clock>>

\* update_routine up to the deck query, for a body that names a deck and
\* leaves the other fields alone (nothing is flushed before the query).
update_routine_check(p, cr, routine_id, data) ==
    LET uid == require_user(cr)
        refuse(answer) ==
            /\ call' = CallOnWith("update_routine", cr, uid, routine_id, data)
            /\ resp' = answer
            /\ UNCHANGED <<stores, clock, threads>>
    IN  /\ p \notin DOMAIN threads
        /\ DOMAIN data = {"deck_id"}
        /\ IF uid = NoUser THEN Reject("update_routine", cr)
           ELSE IF RoutineOwned(routine_id, uid) = {} THEN refuse(NotFound)
           ELSE IF Truthy(data["deck_id"]) /\ DeckForRoutine(data["deck_id"], uid) = {}
           THEN refuse(Error(404, "deck not found or unauthorized"))
           ELSE \E r \in RoutineOwned(routine_id, uid) :
                /\ threads' = [q \in DOMAIN threads \cup {p} |->
                                 IF q = p
                                 THEN [op |-> "update_routine", cr |-> cr,
                                       data |-> data, user |-> uid, row |-> r,
                                       deck |-> DeckForRoutine(data["deck_id"], uid)]
                                 ELSE threads[q]]
                /\ UNCHANGED <<stores, clock, call, resp>>

\* r.deck_id = deck_id; db.session.commit(): the UPDATE of the loaded row.
update_routine_commit(p) ==
    /\ p \in DOMAIN threads
    /\ threads[p].op = "update_routine"
    /\ LET me  == threads[p]
           new == UpdatedRoutine(me.row, me.data)
       IN  /\ routines' = {r \in routines : r.id # me.row.id} \cup {new}
           /\ call' = CallOnWith("update_routine", me.cr, me.user, me.row.id, me.data)
           /\ resp' = Ok(200, routine_to_dict(new))
    /\ threads' = [q \in DOMAIN threads \ {p} |-> threads[q]]
    /\ UNCHANGED <<ab_user, SESSIONS, decks, actuar, static_files, ACTUAR2_VALUES,
                   clock>>

InitAttach ==
    /\ ACTUAR2_VALUES = NoValues
    /\ clock = 0
    /\ threads = NoThreads
    /\ call = NotCalled
    /\ resp = Ok(0, Null)
    /\ SESSIONS = RepoSessions
    /\ ab_user = RepoUsers
    /\ decks = AttachDecks
    /\ routines = AttachRoutines
    /\ actuar = {}
    /\ static_files = NoFiles

NextAttach ==
    \/ \E p \in AttachWorkers, cr \in AttachCredentials, data \in AttachBodies :
          NextId(routines) <= MaxRows + 1 /\ create_routine_check(p, cr, data)
    \/ \E p \in AttachWorkers : create_routine_commit(p)
    \/ \E p \in AttachWorkers, cr \in AttachCredentials, data \in AttachBodies :
          update_routine_check(p, cr, 1, data)
    \/ \E p \in AttachWorkers : update_routine_commit(p)
    \/ \E cr \in AttachCredentials, deck_id \in 1..2 : delete_deck(cr, deck_id)

SpecAttach == InitAttach /\ [][NextAttach]_vars

-----------------------------------------------------------------------------

(* SpecPublish: two signed-in users publishing, and anybody looking up.    *)
(* The two emails differ in case only: register compares emails exactly,   *)
(* so both registrations succeed (a state SpecAuth reaches).               *)

PublishEmails == << <<"a", "l", "@", "x">>, <<"A", "L", "@", "x">> >>

\* Both users have registered and logged in at time 0, and have deleted the
\* routines seeded at registration.
PublishUsers ==
    add_user(add_user({}, PublishEmails[1], "pw1"), PublishEmails[2], "pw2")
PublishSessions == Bind(Bind(NoSessions, Token(1, 0), 1), Token(2, 0), 2)

PublishCredentials ==
    {Credentials(NoUser, Token(1, 0), NoToken), Credentials(NoUser, NoToken, Token(2, 0))}

PublishBodies ==
    { [text |-> Text(<<"h", "i">>)], [text |-> Text(<<"<", "b", ">">>)],
      [text |-> Num(5)], [body |-> Null] }

LookupIds ==
    { PublishEmails[1], PublishEmails[2], <<"a", "l">>, <<" ", "A", "l", "@", "x">>,
      <<"_", "_">>, <<"z">>, <<" ">> }

InitPublish ==
    /\ ACTUAR2_VALUES = NoValues
    /\ clock = 0
    /\ threads = NoThreads
    /\ call = NotCalled
    /\ resp = Ok(0, Null)
    /\ SESSIONS = PublishSessions
    /\ ab_user = PublishUsers
    /\ decks = {}
    /\ routines = {}
    /\ actuar = {}
    /\ static_files = NoFiles

NextPublish ==
    \/ \E cr \in PublishCredentials, data \in PublishBodies, io \in IoOutcomes :
          post_actuar(cr, data, io)
    \/ \E username \in LookupIds : get_actuar_public(username)
    \/ Tick

SpecPublish == InitPublish /\ [][NextPublish]_vars


-----------------------------------------------------------------------------
(* SpecPublishRace: the publishes of SpecPublish served by two workers at  *)
(* a time, their steps interleaved.                                        *)

Workers == {1, 2}

RaceBodies == { [text |-> Text(<<"h", "i">>)], [text |-> Num(5)], [body |-> Null] }

RaceCredentials ==
    PublishCredentials \cup {Credentials(NoUser, NoToken, NoToken)}

NextPublishRace ==
    \/ \E p \in Workers, cr \in RaceCredentials, data \in RaceBodies :
          post_actuar_begin(p, cr, data)
    \/ \E p \in Workers : post_actuar_commit(p)
    \/ \E p \in Workers : post_actuar_reload(p)
    \/ \E p \in Workers, io \in IoOutcomes : post_actuar_write(p, io)

SpecPublishRace == InitPublish /\ [][NextPublishRace]_vars


-----------------------------------------------------------------------------
(* SpecGuard: every guarded endpoint, called with and without credentials. *)
(* User 1 is logged in at time 0 and may log out and in again; the other   *)
(* requests carry no credential, or a token that was never issued, or one  *)
(* that has been revoked.  The client keeps one deck and one routine at    *)
(* most: it creates one only when it has none.                             *)

MaxCredits == 1   \* credits are added while the balance is below MaxCredits

GuardCredentials ==
    { NoCredentials,
      Credentials(NoUser, NeverIssued, NoToken),
      Credentials(NoUser, NoToken, NeverIssued),
      Credentials(NoUser, Token(1, 0), NoToken) }

InitGuard ==
    /\ ACTUAR2_VALUES = NoValues
    /\ clock = 0
    /\ threads = NoThreads
    /\ call = NotCalled
    /\ resp = Ok(0, Null)
    /\ SESSIONS = Bind(NoSessions, Token(1, 0), 1)
    /\ ab_user = RepoUsers
    /\ decks = {}
    /\ routines = {}
    /\ actuar = {}
    /\ static_files = NoFiles

\* The ids a client asks for: those of the rows there are, and the next one.
PathIds(table) == {r.id : r \in table} \cup {NextId(table)}

NextGuard ==
    \/ login(RepoEmails[1], "pw1")
    \/ \E cr \in GuardCredentials : logout(cr)
    \/ \E cr \in GuardCredentials : get_user(cr)
    \/ \E cr \in GuardCredentials : list_decks(cr)
    \/ \E cr \in GuardCredentials :
          decks = {} /\ create_deck(cr, [name |-> Str("D1")])
    \/ \E cr \in GuardCredentials, id \in PathIds(decks) : get_deck(cr, id)
    \/ \E cr \in GuardCredentials, id \in PathIds(decks) :
          update_deck(cr, id, [description |-> Str("d")])
    \/ \E cr \in GuardCredentials, id \in PathIds(decks) : delete_deck(cr, id)
    \/ \E cr \in GuardCredentials : list_routines(cr)
    \/ \E cr \in GuardCredentials :
          routines = {} /\ create_routine(cr, [name |-> Str("R1")])
    \/ \E cr \in GuardCredentials, id \in PathIds(routines) : get_routine(cr, id)
    \/ \E cr \in GuardCredentials, id \in PathIds(routines) :
          update_routine(cr, id, [stack |-> Str("D1")])
    \/ \E cr \in GuardCredentials, id \in PathIds(routines) : delete_routine(cr, id)
    \/ \E cr \in GuardCredentials : get_credits(cr)
    \/ \E cr \in GuardCredentials :
          /\ \A u \in ab_user : u.credits < MaxCredits
          /\ add_credits(cr, [amount |-> Num(1)])
    \/ \E cr \in GuardCredentials : post_actuar(cr, [text |-> Text(<<"h", "i">>)], "ok")
    \/ \E cr \in GuardCredentials :
          actuar2_init(cr, [values |-> List(<<Text(<<"v">>)>>)])
    \/ \E cr \in GuardCredentials :
          actuar2_post(cr, [value |-> Text(<<"v">>), text |-> Text(<<"h", "i">>)], "ok")

SpecGuard == InitGuard /\ [][NextGuard]_vars


-----------------------------------------------------------------------------
(* SpecSession: two registered users, requests carrying a session cookie,  *)
(* a token (issued or not), or both.                                       *)

SessionTokens == {Token(1, 0), Token(2, 0), NeverIssued}

SessionCredentials ==
    { Credentials(a, h, q) :
        a \in {NoUser, 1, 2},
        h \in {NoToken} \cup SessionTokens,
        q \in {NoToken} \cup SessionTokens }
    \ { Credentials(a, h, q) :
          a \in {NoUser, 1, 2}, h \in SessionTokens, q \in SessionTokens }

InitSession ==
    /\ Start
    /\ ab_user = RepoUsers
    /\ decks = {}
    /\ routines = {}
    /\ actuar = {}
    /\ static_files = NoFiles

NextSession ==
    \/ login(RepoEmails[1], "pw1")
    \/ login(RepoEmails[2], "pw2")
    \/ \E cr \in SessionCredentials : logout(cr)
    \/ \E cr \in SessionCredentials : get_user(cr)
    \/ Tick

SpecSession == InitSession /\ [][NextSession]_vars

-----------------------------------------------------------------------------
(* SpecTokens: logins and logouts of two users among deck, credit and      *)
(* publish requests, as time passes.                                       *)

TokensCredentials ==
    { Credentials(NoUser, Token(1, 0), NoToken),
      Credentials(NoUser, NoToken, Token(2, 0)),
      Credentials(1, Token(2, 0), NoToken) }

InitTokens ==
    /\ Start
    /\ ab_user = RepoUsers
    /\ decks = {}
    /\ routines = {}
    /\ actuar = {}
    /\ static_files = NoFiles

NextTokens ==
    \/ login(RepoEmails[1], "pw1")
    \/ login(RepoEmails[2], "pw2")
    \/ \E cr \in TokensCredentials : logout(cr)
    \/ decks = {} /\ create_deck(Credentials(NoUser, Token(1, 0), NoToken),
                                 [name |-> Str("D1")])
    \/ /\ \A u \in ab_user : u.credits < MaxCredits
       /\ add_credits(Credentials(NoUser, Token(1, 0), NoToken), [amount |-> Num(1)])
    \/ post_actuar(Credentials(NoUser, Token(1, 0), NoToken),
                   [text |-> Text(<<"h", "i">>)], "ok")
    \/ Tick

SpecTokens == InitTokens /\ [][NextTokens]_vars

-----------------------------------------------------------------------------

(* SpecBackend: the application of backend/app.py.  ab_user holds its      *)
(* users table and SESSIONS its registry.                                  *)

\* add_credits of backend/app.py for the current user: the answer, and the
\* users table it leaves.
backend_add_credits(users, uid, data) ==
    LET amount == GetOr(data, "amount", Num(0))
        user   == CHOOSE u \in users : u.id = uid
    IN  IF amount.t # "int"      \* int(None), int([...]): TypeError
        THEN [resp |-> Error(500, "Internal Server Error"), users |-> users]
        ELSE IF amount.v <= 0
        THEN [resp |-> Error(400, "amount must be positive"), users |-> users]
        ELSE [resp  |-> Ok(200, [credits |-> user.credits + amount.v]),
              users |-> (users \ {user})
                           \cup {[user EXCEPT !.credits = user.credits + amount.v]}]

BackendSeeds == {Num(5), Num(0), Num(0 - 1), Null}

BackendAmounts == {[amount |-> Num(1)], [amount |-> Num(0)], [amount |-> Num(0 - 1)]}

BackendTokens == {"token-1", "token-2"}

backend_register_call(email, password, seed) ==
    LET result == backend_register_seeded(ab_user, email, password, seed)
    IN  /\ call' = PublicCall("register")
        /\ resp' = result.resp
        /\ ab_user' = result.users
        /\ UNCHANGED <<SESSIONS, decks, routines, actuar, static_files,
                       ACTUAR2_VALUES, clock, threads>>

backend_login_call(email, password) ==
    LET result == backend_login(ab_user, SESSIONS, email, password)
    IN  /\ call' = LoginCall(email, password)
        /\ resp' = result.resp
        /\ SESSIONS' = result.sessions
        /\ UNCHANGED <<tables, static_files, ACTUAR2_VALUES, clock, threads>>

backend_add_credits_call(cr, data) ==
    LET guard  == backend_require_user(ab_user, SESSIONS, cr)
        result == backend_add_credits(ab_user, guard.user, data)
    IN  IF guard.user = NoUser
        THEN /\ call' = Refused("add_credits", cr)
             /\ resp' = guard.resp
             /\ UNCHANGED <<stores, clock, threads>>
        ELSE /\ call' = CallOnWith("add_credits", cr, guard.user, 0, data)
             /\ resp' = result.resp
             /\ ab_user' = result.users
             /\ UNCHANGED <<SESSIONS, decks, routines, actuar, static_files,
                            ACTUAR2_VALUES, clock, threads>>

InitBackend == Start /\ EmptyDatabase

NextBackend ==
    \/ \E i \in DOMAIN RepoEmails, seed \in BackendSeeds :
          backend_register_call(RepoEmails[i], "pw1", seed)
    \/ \E i \in DOMAIN RepoEmails, password \in {"pw1", "pw2"} :
          backend_login_call(RepoEmails[i], password)
    \/ \E t \in BackendTokens, data \in BackendAmounts :
          /\ \A u \in ab_user : u.credits < 5 + MaxCredits
          /\ backend_add_credits_call(Credentials(NoUser, t, NoToken), data)

SpecBackend == InitBackend /\ [][NextBackend]_vars

-----------------------------------------------------------------------------

(* SpecActuar2: the two users of SpecRepo initialising values and          *)
(* publishing under them.  User 1 has published the text "hi" before.      *)

Hi == <<"h", "i">>

InitBodies ==
    { [values |-> List(<<Text(<<"A">>)>>)],
      [list |-> List(<<Text(<<"b">>), Text(<<"a", "!">>)>>)],
      [values |-> List(<<>>)],
      [strings |-> Text(<<"a">>)],
      [values |-> List(<<Text(<<"b">>), Num(5)>>)],
      [values |-> List(<<Text(<<"b">>), Text(<<"!">>)>>)] }

PostBodies ==
    { [value |-> Text(<<"A">>), text |-> Text(Hi)],
      [key |-> Text(<<"b", "!">>), text |-> Num(5)],
      [value |-> Text(<<"c">>), text |-> Text(Hi)],
      [value |-> Text(<<"!">>), text |-> Text(Hi)],
      [value |-> Num(5), text |-> Text(Hi)],
      [value |-> Text(<<"a">>)] }

InitActuar2 ==
    /\ ACTUAR2_VALUES = NoValues
    /\ clock = 0
    /\ threads = NoThreads
    /\ call = NotCalled
    /\ resp = Ok(0, Null)
    /\ SESSIONS = RepoSessions
    /\ ab_user = RepoUsers
    /\ decks = {}
    /\ routines = {}
    /\ actuar = Upsert({}, 1, Hi, 0)
    /\ static_files = _write_actuar_static(NoFiles, <<"a">>, Hi, "ok").files

NextActuar2 ==
    \/ \E cr \in RepoCredentials, data \in InitBodies : actuar2_init(cr, data)
    \/ \E cr \in RepoCredentials, data \in PostBodies, io \in IoOutcomes :
          actuar2_post(cr, data, io)

SpecActuar2 == InitActuar2 /\ [][NextActuar2]_vars


\* What a call by user uid may leave behind: every row of somebody else is
\* still there as it was, and every row that is new or changed is the caller's.
OthersRowsKept(uid) ==
    /\ \A d \in decks : d.owner_id # uid => d \in decks'
    /\ \A r \in routines : r.owner_id # uid => r \in routines'
    /\ \A d \in decks' \ decks : d.owner_id = uid
    /\ \A r \in routines' \ routines : r.owner_id = uid

\* The rows a response carries all belong to user uid.
OnlyOwnRowsReturned(uid) ==
    /\ call'.op \in {"list_decks", "list_routines"} =>
          \A row \in resp'.body.rows : row.owner_id = uid
    /\ (call'.op \in {"get_deck", "update_deck", "get_routine", "update_routine",
                      "create_deck", "create_routine"} /\ resp'.status \in {200, 201}) =>
          resp'.body.owner_id = uid

\* C4: no list, read, update or delete call made by a user returns or changes
\* a row owned by another user; reading, updating or deleting another user's
\* deck or routine answers 404 'not found', exactly as for an id that does
\* not exist, and leaves the tables as they were.
C4_OwnershipIsolation ==
    [][call'.ran =>
         /\ OthersRowsKept(call'.user) /\ OnlyOwnRowsReturned(call'.user)
         /\ ( /\ call'.op \in {"get_deck", "update_deck", "delete_deck"}
              /\ \A d \in decks : d.id = call'.id => d.owner_id # call'.user )
            => (resp' = NotFound /\ UNCHANGED tables)
         /\ ( /\ call'.op \in {"get_routine", "update_routine", "delete_routine"}
              /\ \A r \in routines : r.id = call'.id => r.owner_id # call'.user )
            => (resp' = NotFound /\ UNCHANGED tables)]_vars

\* A user was answered 404 on updating the one routine there is, which is
\* another user's, while holding a deck of their own.
C4_Witness ==
    /\ call.op = "update_routine" /\ call.ran /\ resp = NotFound
    /\ \E r \in routines : r.id = call.id /\ r.owner_id # call.user
    /\ \E d \in decks : d.owner_id = call.user


\* C7: every routine whose deck_id is not null references an existing deck
\* owned by the routine's owner.
C7_DeckIdResolves ==
    \A r \in routines :
        r.deck_id # Null =>
            \E d \in decks : /\ r.deck_id = Num(d.id)
                             /\ d.owner_id = r.owner_id


\* What a browser shows for escaped text: the inverse of html.escape.
RECURSIVE Unescape(_)
Unescape(s) ==
    LET StartsWith(p) == Len(s) >= Len(p) /\ SubSeq(s, 1, Len(p)) = p
        Rest(p)       == SubSeq(s, Len(p) + 1, Len(s))
    IN  IF s = <<>> THEN <<>>
        ELSE IF StartsWith(EscapeChar("&")) THEN <<"&">> \o Unescape(Rest(EscapeChar("&")))
        ELSE IF StartsWith(EscapeChar("<")) THEN <<"<">> \o Unescape(Rest(EscapeChar("<")))
        ELSE IF StartsWith(EscapeChar(">")) THEN <<">">> \o Unescape(Rest(EscapeChar(">")))
        ELSE IF StartsWith(EscapeChar("\"")) THEN <<"\"">> \o Unescape(Rest(EscapeChar("\"")))
        ELSE IF StartsWith(EscapeChar("'")) THEN <<"'">> \o Unescape(Rest(EscapeChar("'")))
        ELSE <<Head(s)>> \o Unescape(Tail(s))

\* The state is the one a successful single-value publish has just left.
JustPublished == call.op = "post_actuar" /\ call.ran /\ resp.status = 200

\* The publisher's file holds the document of the text just published, and
\* shows that text and nothing else; the record holds that text.
ArtifactShowsPublished(u) ==
    LET name == _derive_sanitized_username(u)
        text == resp.body.text.v
    IN  /\ OutPath(name) \in DOMAIN static_files
        /\ static_files[OutPath(name)].title = name
        /\ Unescape(static_files[OutPath(name)].pre) = text
        /\ \A row \in ActuarOf(actuar, u.id) : row.text = text

\* C9 (as stated): after every single-value publish the artifact at the
\* user's derived identifier renders the text just published and none of the
\* texts published before it.
C9_ArtifactShowsEveryPublish ==
    JustPublished => \A u \in UserById(ab_user, call.user) : ArtifactShowsPublished(u)

\* C9 (amended): every single-value publish whose artifact write succeeded
\* names the same location, the one of the user's derived identifier, and
\* leaves there a document that renders the text just published and none of
\* the texts published before it, the record holding the same text.
C9_ArtifactShowsWrittenPublish ==
    (JustPublished /\ "url" \in DOMAIN resp.body.static) =>
        \A u \in UserById(ab_user, call.user) :
            /\ resp.body.static.url = StaticUrl(_derive_sanitized_username(u))
            /\ ArtifactShowsPublished(u)

\* User 1 published before user 2 did (row ids), user 2 at time 0, and user 1
\* has now published a different text again, the write succeeding.
C9_Witness ==
    /\ JustPublished /\ call.user = 1 /\ "url" \in DOMAIN resp.body.static
    /\ \E r1, r2 \in actuar :
          /\ r1.id = 1 /\ r1.user_id = 1 /\ r1.updated_at = 1
          /\ r2.id = 2 /\ r2.user_id = 2 /\ r2.updated_at = 0
          /\ r1.text = <<"<", "b", ">">>

\* C10: after a successful publish, the public lookup by the publisher's
\* email answers 200 with the text just published and echoes the email.
C10_LookupByEmailShowsPublished ==
    JustPublished =>
        \A u \in UserById(ab_user, call.user) :
            \A answer \in LookupResponses(ab_user, actuar, u.email) :
                /\ answer.status = 200
                /\ answer.body.username = u.email
                /\ answer.body.text = resp.body.text


Unauthenticated(cr) ==
    /\ cr.ambient = NoUser
    /\ cr.header \notin DOMAIN SESSIONS
    /\ cr.query \notin DOMAIN SESSIONS

GuardedEndpoints ==
    {"logout", "get_user", "list_decks", "create_deck", "get_deck", "update_deck",
     "delete_deck", "list_routines", "create_routine", "get_routine",
     "update_routine", "delete_routine", "get_credits", "add_credits",
     "post_actuar", "actuar2_init", "actuar2_post"}

\* C3: a request to a guarded endpoint without an authenticated ambient
\* session and without a token of the session registry is answered 401
\* 'authentication required', the endpoint function is not called, and no
\* store (registry, tables, permitted sets, artifacts) changes.
C3_GuardRejects ==
    [][(call'.op \in GuardedEndpoints /\ Unauthenticated(call'.cr)) =>
          /\ ~call'.ran
          /\ resp' = AuthRequired
          /\ UNCHANGED stores
          /\ backend_require_user(ab_user, SESSIONS, call'.cr).resp = AuthRequired]_vars

\* The token of user 1, revoked by a logout, was presented to delete_deck
\* while user 1 has a deck: the request was refused.
C3_Witness ==
    /\ call.op = "delete_deck" /\ ~call.ran /\ resp = AuthRequired
    /\ call.cr = Credentials(NoUser, Token(1, 0), NoToken)
    /\ decks # {}


\* C11: when the artifact write fails, the single-value publish still answers
\* 200 with success, the record holds the new text (the commit is not rolled
\* back), and the failure shows only as the error field of 'static'.
C11_WriteFailureKeepsCommit ==
    [][(call'.op = "post_actuar" /\ call'.ran
          /\ Get(call'.data, "text") # Null /\ call'.io # "ok") =>
             /\ resp'.status = 200 /\ resp'.error = ""
             /\ resp'.body.success
             /\ resp'.body.text = Text(PyStr(Get(call'.data, "text")))
             /\ DOMAIN resp'.body.static = {"error"}
             /\ \E row \in actuar' :
                   /\ row.user_id = call'.user
                   /\ row.text = PyStr(Get(call'.data, "text"))
             /\ \A row \in actuar' :
                   row.user_id # call'.user => row \in actuar]_vars

\* A publish whose write failed has answered 200: the record holds the new
\* text while the artifact still shows another one.
C11_Witness ==
    /\ JustPublished /\ "error" \in DOMAIN resp.body.static
    /\ \E row \in actuar : row.user_id = call.user /\ row.text = resp.body.text.v
    /\ \E f \in DOMAIN static_files :
          static_files[f] # EmptyFile /\ Unescape(static_files[f].pre) # resp.body.text.v

\* The value and the text a two-phase publish reads from its body.
PostedValue(data) ==
    OrElse(OrElse(OrElse(Get(data, "value"), Get(data, "string")),
                  Get(data, "item")), Get(data, "key"))

WellFormedPost(data) ==
    /\ PostedValue(data).t = "text"
    /\ _sanitize_token(PostedValue(data).v) # <<>>
    /\ Get(data, "text") # Null

\* The set the caller's most recent successful init stored holds the token.
Permitted(uid, token) ==
    uid \in DOMAIN ACTUAR2_VALUES /\ token \in ACTUAR2_VALUES[uid]

NotInitialized ==
    Error(400, "value not initialized for user. Call /api/actuar2/init first.")

\* C12 (as stated): a well-formed two-phase publish succeeds exactly when its
\* sanitized value is in the set stored by the caller's latest successful init.
C12_PostSucceedsIffPermitted ==
    [][(call'.op = "actuar2_post" /\ call'.ran /\ WellFormedPost(call'.data)) =>
          (resp'.status = 200
             <=> Permitted(call'.user, _sanitize_token(PostedValue(call'.data).v)))]_vars

\* C12 (amended): a well-formed two-phase publish is refused with the 'not
\* initialized' error, writing nothing, exactly when its sanitized value is
\* not in the set stored by the caller's latest successful init; a permitted
\* value succeeds exactly when the artifact write succeeds, and is answered
\* 500 when the write fails.
C12_PostRefusedIffNotPermitted ==
    [][(call'.op = "actuar2_post" /\ call'.ran /\ WellFormedPost(call'.data)) =>
          LET sv == _sanitize_token(PostedValue(call'.data).v)
          IN  IF Permitted(call'.user, sv)
              THEN IF call'.io = "ok"
                   THEN /\ resp'.status = 200 /\ resp'.body.success
                        /\ resp'.body.value = sv
                   ELSE resp'.status = 500
              ELSE resp' = NotInitialized /\ UNCHANGED static_files]_vars

\* User 1 once published under b (its artifact exists), has since initialised
\* a alone, and is now refused.
C12_Witness ==
    /\ call.op = "actuar2_post" /\ call.ran /\ call.user = 1
    /\ resp = NotInitialized
    /\ 1 \in DOMAIN ACTUAR2_VALUES /\ ACTUAR2_VALUES[1] = {<<"a">>}
    /\ OutPath(<<"a", "_", "b">>) \in DOMAIN static_files

\* The list an init call reads from its body.
InitList(data) ==
    OrElse(OrElse(Get(data, "values"), Get(data, "list")), Get(data, "strings"))

\* The sanitized entries of a list of strings.
SanitizedEntries(list) == {_sanitize_token(list[i].v) : i \in DOMAIN list}

\* C13: after a successful init with list L the caller's permitted set is
\* exactly the set of sanitized entries of L, whatever was permitted before;
\* the response lists exactly that set, each token once, in ascending order;
\* the sets of other users stay as they were.
C13_InitReplaces ==
    [][(call'.op = "actuar2_init" /\ call'.ran /\ resp'.status = 200) =>
          LET tokens == SanitizedEntries(InitList(call'.data).v)
              listed == resp'.body.values
          IN  /\ call'.user \in DOMAIN ACTUAR2_VALUES'
              /\ ACTUAR2_VALUES'[call'.user] = tokens
              /\ Range(listed) = tokens
              /\ \A i, j \in DOMAIN listed : i < j => TokenLess(listed[i], listed[j])
              /\ \A u \in DOMAIN ACTUAR2_VALUES' \ {call'.user} :
                    u \in DOMAIN ACTUAR2_VALUES
                       /\ ACTUAR2_VALUES'[u] = ACTUAR2_VALUES[u]]_vars

\* User 1 published under b (so b was permitted) and has now initialised a
\* alone: b is gone from the set and from the answer.
C13_Witness ==
    /\ call.op = "actuar2_init" /\ call.ran /\ call.user = 1 /\ resp.status = 200
    /\ OutPath(<<"a", "_", "b">>) \in DOMAIN static_files
    /\ ACTUAR2_VALUES[1] = {<<"a">>}
    /\ resp.body.values = << <<"a">> >>

\* The payload of an init call is not a non-empty list, or one of its entries
\* is not a string or sanitizes to the empty token.
InvalidInit(data) ==
    LET L == InitList(data)
    IN  \/ L.t # "list"
        \/ L.v = <<>>
        \/ \E i \in DOMAIN L.v :
              L.v[i].t # "text" \/ _sanitize_token(L.v[i].v) = <<>>

\* C14: an init call with an invalid payload is answered with a 4xx error and
\* leaves every permitted set, the caller's included, exactly as it was.
C14_InvalidInitChangesNothing ==
    [][(call'.op = "actuar2_init" /\ call'.ran /\ InvalidInit(call'.data)) =>
          /\ resp'.status \in 400..499
          /\ resp'.error # ""
          /\ ACTUAR2_VALUES' = ACTUAR2_VALUES]_vars

\* User 1, permitted a alone, has sent a list with the valid entry b and an
\* entry that is not a string: refused, and b is not permitted.
C14_Witness ==
    /\ call.op = "actuar2_init" /\ call.ran /\ call.user = 1
    /\ call.data = [values |-> List(<<Text(<<"b">>), Num(5)>>)]
    /\ resp = Error(400, "all values must be strings")
    /\ 1 \in DOMAIN ACTUAR2_VALUES /\ ACTUAR2_VALUES[1] = {<<"a">>}

\* Identifiers a client may look up: user 1, who has published, by email and
\* user 2, who has not, by local part.
Actuar2Lookups == {RepoEmails[1], <<"B">>}

\* C15: a two-phase publish, accepted or refused, leaves every permitted set
\* and every publish record as they were: a value just published is still
\* permitted, and every public lookup has the answers it had before.
C15_PostIsNoTransition ==
    [][call'.op = "actuar2_post" =>
          /\ ACTUAR2_VALUES' = ACTUAR2_VALUES
          /\ actuar' = actuar
          /\ \A q \in Actuar2Lookups :
                LookupResponses(ab_user', actuar', q) = LookupResponses(ab_user, actuar, q)
          /\ (call'.ran /\ resp'.status = 200) =>
                /\ call'.user \in DOMAIN ACTUAR2_VALUES'
                /\ resp'.body.value \in ACTUAR2_VALUES'[call'.user]]_vars

\* User 2 has published under b while user 1 is initialised and holds a
\* publish record that a lookup shows.
C15_Witness ==
    /\ call.op = "actuar2_post" /\ call.ran /\ call.user = 2 /\ resp.status = 200
    /\ resp.body.value = <<"b">>
    /\ 1 \in DOMAIN ACTUAR2_VALUES
    /\ \E answer \in LookupResponses(ab_user, actuar, RepoEmails[1]) :
          answer.status = 200 /\ answer.body.text = Text(Hi)
    /\ \E answer \in LookupResponses(ab_user, actuar, <<"B">>) :
          answer.status = 200 /\ answer.body.text = Null

\* The artifact key of a user's two-phase publish under a token.
Actuar2Key(u, token) ==
    OutPath(_derive_sanitized_username(u) \o <<"_">> \o token)

Actuar2Tokens == {<<"a">>, <<"b">>, <<"c">>}

\* What a directory holds under a key (Null when there is no such file).
FileAt(files, key) == IF key \in DOMAIN files THEN files[key] ELSE Null

\* C16: a permitted two-phase publish under token sv whose write succeeds
\* leaves its text at the key of (user, sv), and that key differs from the
\* key of the same user under every other token; whether the write succeeds
\* or not, the artifacts of the same user under the other tokens keep the
\* content they had.
C16_DistinctValuesDistinctArtifacts ==
    [][(call'.op = "actuar2_post" /\ call'.ran /\ resp'.status \in {200, 500}) =>
          LET sv == _sanitize_token(PostedValue(call'.data).v)
          IN  \A u \in UserById(ab_user, call'.user) :
                 /\ resp'.status = 200 =>
                       /\ Actuar2Key(u, sv) \in DOMAIN static_files'
                       /\ Unescape(static_files'[Actuar2Key(u, sv)].pre)
                             = PyStr(Get(call'.data, "text"))
                 /\ \A t \in Actuar2Tokens \ {sv} :
                       /\ Actuar2Key(u, t) # Actuar2Key(u, sv)
                       /\ FileAt(static_files', Actuar2Key(u, t))
                             = FileAt(static_files, Actuar2Key(u, t))]_vars

\* User 1 has just published "5" under b, and the artifact under a still
\* shows the "hi" published there before.
C16_Witness ==
    /\ call.op = "actuar2_post" /\ call.ran /\ call.user = 1 /\ resp.status = 200
    /\ resp.body.value = <<"b">>
    /\ FileAt(static_files, OutPath(<<"a", "_", "b">>)) # Null
    /\ FileAt(static_files, OutPath(<<"a", "_", "a">>)) # Null
    /\ static_files[OutPath(<<"a", "_", "b">>)].pre = <<"5">>
    /\ static_files[OutPath(<<"a", "_", "a">>)].pre = Hi

\* The users an identifier names under each of the three rules, and the users
\* of the first rule that names any.
ByEmail(q) == {u \in ab_user : Lower(u.email) = Lower(q)}
ByUsername(q) == {u \in ab_user : Lower(u.username) = Lower(q)}
ByLocalPart(q) ==
    IF "@" \in Range(q) THEN {}
    ELSE {u \in ab_user : "@" \in Range(u.email)
                             /\ Lower(Before(u.email, "@")) = Lower(q)}
Named(q) ==
    IF ByEmail(q) # {} THEN ByEmail(q)
    ELSE IF ByUsername(q) # {} THEN ByUsername(q)
    ELSE ByLocalPart(q)

\* The answer shows the record of user u: the text u published, or null when
\* u has published nothing.
ShowsRecordOf(u) ==
    /\ resp.status = 200
    /\ IF ActuarOf(actuar, u.id) = {}
       THEN resp.body.text = Null /\ resp.body.updated_at = Null
       ELSE \E row \in ActuarOf(actuar, u.id) : resp.body.text = Text(row.text)

\* The state is the one a public lookup of a non-blank identifier has left.
LookedUp == call.op = "get_actuar_public" /\ Strip(call.path) # <<>>

\* C17: a public lookup answers with the record of a user the identifier
\* names under the first of the three rules (email, username, local part of
\* the email) that names any, and with 404 'user not found' when the
\* identifier names no user under any of them.
C17_LookupOrder ==
    LookedUp =>
        IF Named(Strip(call.path)) = {}
        THEN resp = Error(404, "user not found")
        ELSE \E u \in Named(Strip(call.path)) : ShowsRecordOf(u)

\* C18: a public lookup by the email of a user who has published nothing
\* answers 200 with null text and null updated_at; 'user not found' is
\* answered only when the identifier names no user.
C18_NeverPublishedIsNullRecord ==
    LookedUp =>
        /\ \A u \in ab_user :
              (u.email = Strip(call.path) /\ ActuarOf(actuar, u.id) = {}) =>
                 /\ resp.status = 200
                 /\ resp.body.text = Null
                 /\ resp.body.updated_at = Null
        /\ resp = Error(404, "user not found") => Named(Strip(call.path)) = {}

\* The listing just answered holds, for entry i of INITIAL_ROUTINES, a routine
\* of that name owned by the caller and attached to no deck.
ListsDefault(i) ==
    \E row \in resp.body.rows :
        /\ row.name = Str(INITIAL_ROUTINES[i].name)
        /\ row.owner_id = call.user
        /\ row.deck_id = Null

Listed == call.op = "list_routines" /\ call.ran /\ resp.status = 200

EmailsUnique == \A u1, u2 \in ab_user : u1.email = u2.email => u1 = u2

\* C20: a registration with an email a user already holds is answered with
\* 'email already registered' and adds neither a user nor a routine (the
\* register of backend/app.py answers the same on the same table); and in
\* every state no two users hold the same email.
C20_DuplicateEmailRejected ==
    /\ []EmailsUnique
    /\ [][call'.op = "register" =>
            \A email \in AuthEmails, password \in AuthPasswords :
               ((\E u \in ab_user : u.email = email)
                   /\ register(email, password, "ok")) =>
                  /\ resp' = Error(400, "email already registered")
                  /\ ab_user' = ab_user
                  /\ routines' = routines
                  /\ backend_register(ab_user, email, password)
                        = [resp  |-> Error(400, "email already registered"),
                           users |-> ab_user]]_vars

\* Both emails are held, and a registration has just been refused as a
\* duplicate.
C20_Witness ==
    /\ call.op = "register"
    /\ resp = Error(400, "email already registered")
    /\ Cardinality(ab_user) = 2
    /\ routines # {}

\* The body of an update asks for a deck_id that resolves to no deck of user
\* uid, and is valid otherwise.
AsksUnownedDeck(data, uid) ==
    /\ "deck_id" \in DOMAIN data /\ Truthy(data["deck_id"])
    /\ \A d \in decks : (data["deck_id"] = Num(d.id)) => d.owner_id # uid
    /\ "nodes" \in DOMAIN data => data["nodes"].t = "list"
    /\ "deck_order" \in DOMAIN data => data["deck_order"].t \in {"list", "null"}

DeckNotFound == Error(404, "deck not found or unauthorized")

\* C21: deleting a deck deletes no routine; a routine whose deck is gone is
\* still read with success and shows the deck_id it was given; and an update
\* that asks for the id of a deck the caller does not (or no longer) own is
\* answered 404 'deck not found or unauthorized' and changes no routine.
C21_DeckDeletionKeepsRoutines ==
    [][call'.ran =>
         /\ (call'.op = "delete_deck" /\ resp'.status = 200) =>
               /\ routines' = routines
               /\ \A d \in decks' : d.id # call'.id \/ d.owner_id # call'.user
         /\ call'.op = "get_routine" =>
               \A r \in routines :
                  ( /\ r.id = call'.id /\ r.owner_id = call'.user
                    /\ r.deck_id # Null
                    /\ \A d \in decks : r.deck_id # Num(d.id) ) =>
                       /\ resp'.status = 200
                       /\ resp'.body.id = StrOfNat(r.id)
                       /\ resp'.body.deck_id = DeckIdText(r.deck_id)
         /\ ( /\ call'.op = "update_routine"
              /\ \E r \in routines : r.id = call'.id /\ r.owner_id = call'.user
              /\ AsksUnownedDeck(call'.data, call'.user) ) =>
                 resp' = DeckNotFound /\ routines' = routines]_vars

\* Deck 2 is deleted and routine 1 still carries its id; setting that id on
\* routine 2 has just been refused.
C21_Witness ==
    /\ call.op = "update_routine" /\ call.ran /\ call.id = 2
    /\ call.data = [deck_id |-> Num(2)]
    /\ resp = DeckNotFound
    /\ \A d \in decks : d.id # 2
    /\ \E r \in routines : r.id = 1 /\ r.deck_id = Num(2)

\* The body of a create_routine call passes the checks made before the deck
\* is looked up.
CreatableRoutine(data) ==
    /\ Truthy(Get(data, "name"))
    /\ Get(data, "nodes").t \in {"null", "list"}
    /\ "deck_order" \in DOMAIN data => data["deck_order"].t = "list"

C22_WitnessNoDeck ==
    /\ call.op = "create_routine" /\ call.ran /\ resp = DeckNotFound /\ decks = {}

\* The row `new` is the row `old` with, at most, the fields of the request
\* body changed: same id and owner, absent fields kept, nodes replaced whole.
OnlyPresentFieldsChanged(old, new, data, fields) ==
    /\ new.id = old.id
    /\ new.owner_id = old.owner_id
    /\ \A f \in fields : f \notin DOMAIN data => new[f] = old[f]
    /\ "nodes" \in DOMAIN data => new.nodes = data["nodes"]

\* Rows that keep their id keep their owner.
OwnersKept(before, after) ==
    \A old \in before, new \in after : new.id = old.id => new.owner_id = old.owner_id

\* C23: a successful update_deck or update_routine changes the one row it
\* names and only in the fields its body carries (absent fields keep their
\* values, a supplied nodes list becomes the stored list), and no operation
\* changes the id or the owner of a row.
C23_UpdateChangesOnlyPresentFields ==
    [][call'.ran =>
        /\ OwnersKept(decks, decks') /\ OwnersKept(routines, routines')
        /\ (call'.op = "update_deck" /\ resp'.status = 200) =>
              /\ routines' = routines
              /\ \E old \in decks, new \in decks' :
                    /\ old.id = call'.id /\ old.owner_id = call'.user
                    /\ decks' = (decks \ {old}) \cup {new}
                    /\ OnlyPresentFieldsChanged(old, new, call'.data,
                                                {"name", "description", "nodes"})
        /\ (call'.op = "update_routine" /\ resp'.status = 200) =>
              /\ decks' = decks
              /\ \E old \in routines, new \in routines' :
                    /\ old.id = call'.id /\ old.owner_id = call'.user
                    /\ routines' = (routines \ {old}) \cup {new}
                    /\ OnlyPresentFieldsChanged(old, new, call'.data,
                          {"name", "stack", "nodes", "deck_order", "deck_id"})]_vars

\* Routine 1 was given a new nodes list: the list is the supplied one, and its
\* name, stack and deck are the ones it was created with.
C23_Witness ==
    /\ call.op = "update_routine" /\ call.ran /\ call.id = 1 /\ resp.status = 200
    /\ call.data = [nodes |-> List(<<"n2">>)]
    /\ \E r \in routines :
          /\ r.id = 1 /\ r.nodes = List(<<"n2">>)
          /\ r.name = Str("R1") /\ r.stack = Str("D1") /\ r.deck_id = Num(2)

\* The body carries a value the update refuses: nodes or deck_order that is
\* no list, or the id of a deck the caller does not own.
FailsValidation(data, uid) ==
    \/ "nodes" \in DOMAIN data /\ data["nodes"].t # "list"
    \/ "deck_order" \in DOMAIN data /\ data["deck_order"].t \notin {"list", "null"}
    \/ /\ "deck_id" \in DOMAIN data /\ Truthy(data["deck_id"])
       /\ \A d \in decks : (data["deck_id"] = Num(d.id)) => d.owner_id # uid

\* C24: an update_deck or update_routine call on a row of the caller whose
\* body fails validation is refused with 400 or 404 and leaves every deck and
\* every routine as stored, whatever else the body carries.
C24_FailedUpdateChangesNothing ==
    [][( /\ call'.ran
         /\ \/ /\ call'.op = "update_routine"
               /\ \E r \in routines : r.id = call'.id /\ r.owner_id = call'.user
               /\ FailsValidation(call'.data, call'.user)
            \/ /\ call'.op = "update_deck"
               /\ \E d \in decks : d.id = call'.id /\ d.owner_id = call'.user
               /\ "nodes" \in DOMAIN call'.data /\ call'.data["nodes"].t # "list" ) =>
            /\ resp'.status \in {400, 404}
            /\ decks' = decks
            /\ routines' = routines]_vars

\* A body with a new name, a valid new nodes list and the id of no deck was
\* refused for routine 1, which still has its name and nodes.
C24_Witness ==
    /\ call.op = "update_routine" /\ call.ran /\ call.id = 1
    /\ call.data = [name |-> Str("R8"), nodes |-> List(<<"n3">>), deck_id |-> Num(3)]
    /\ resp = DeckNotFound
    /\ \E r \in routines : r.id = 1 /\ r.name = Str("R1") /\ r.nodes = List(<<"n1">>)

\* A body with a new name and nodes that are no list was refused for a deck.
C24_WitnessDeck ==
    /\ call.op = "update_deck" /\ call.ran /\ resp = Error(400, "nodes must be a list")
    /\ call.data = [name |-> Str("D9"), nodes |-> Str("n1")]
    /\ \A d \in decks : d.name # Str("D9")

\* The tokens bound to the user, and the user's entry of the permitted-value
\* map.
LiveTokens(uid) == {t \in DOMAIN SESSIONS : SESSIONS[t] = uid}
PermittedEntry(uid) ==
    IF uid \in DOMAIN ACTUAR2_VALUES THEN [u \in {uid} |-> ACTUAR2_VALUES[uid]]
    ELSE NoValues

C26_AttachAtomicWithDeletion ==
    [][( /\ call'.ran /\ call'.op \in {"create_routine", "update_routine"}
         /\ resp'.status \in {200, 201}
         /\ Truthy(Get(call'.data, "deck_id")) ) =>
            \E d \in decks' :
                /\ Num(d.id) = call'.data["deck_id"]
                /\ d.owner_id = call'.user]_vars

InvalidCredentials == Error(401, "invalid credentials")

\* The login names an email nobody registered / a registered email with a
\* password that is not that user's.
UnknownEmail(c) ==
    /\ c.data.email # <<>> /\ c.data.password # ""
    /\ \A u \in ab_user : u.email # c.data.email
WrongPasswordGiven(c) ==
    /\ c.data.password # ""
    /\ \E u \in ab_user : u.email = c.data.email
    /\ \A u \in ab_user :
          u.email = c.data.email => u.password # PasswordHash(c.data.password)

\* C30: a login naming an unknown email and a login naming a registered
\* email with a wrong password are both answered 401 'invalid credentials'
\* (by the login of backend/app.py as well), and no login that fails changes
\* the session registry.
C30_FailedLoginsAlike ==
    [][(call'.op = "login" /\ call'.ran) =>
          /\ (UnknownEmail(call') \/ WrongPasswordGiven(call')) =>
                /\ resp' = InvalidCredentials
                /\ backend_login(ab_user, SESSIONS, call'.data.email,
                                 call'.data.password)
                      = [resp |-> InvalidCredentials, sessions |-> SESSIONS]
          /\ resp'.status # 200 => SESSIONS' = SESSIONS]_vars

\* A login with a wrong password for a registered email was refused while
\* another token was bound.
C30_Witness ==
    /\ call.op = "login" /\ WrongPasswordGiven(call)
    /\ resp = InvalidCredentials /\ DOMAIN SESSIONS # {}

\* A login with an email nobody registered was refused.
C30_WitnessUnknownEmail ==
    /\ call.op = "login" /\ UnknownEmail(call)
    /\ resp = InvalidCredentials /\ ab_user # {}

\* C27: a guarded request that carries the session cookie of a user runs, and
\* runs with that user as the current user, whatever token it also carries
\* (a token bound to another user, a token never issued, none); get_user then
\* shows that user.
C27_AmbientSessionWins ==
    call.cr.ambient # NoUser =>
        /\ call.ran
        /\ call.user = call.cr.ambient
        /\ call.op = "get_user" => resp.body.id = call.cr.ambient

\* get_user with the cookie of user 1 and the token bound to user 2 showed
\* user 1.
C27_Witness ==
    /\ call.op = "get_user" /\ call.ran
    /\ call.cr = Credentials(1, Token(2, 0), NoToken)
    /\ Token(2, 0) \in DOMAIN SESSIONS /\ SESSIONS[Token(2, 0)] = 2
    /\ resp.status = 200 /\ resp.body.id = 1

\* C28: a step keeps every token of the registry bound to the user it was
\* bound to, unless the step is a logout that ran and presented that token:
\* logins, logouts presenting other tokens, deck, credit and publish requests
\* and the passing of time remove and rebind nothing.
C28_TokenStaysBound ==
    [][\A t \in DOMAIN SESSIONS :
          \/ t \in DOMAIN SESSIONS' /\ SESSIONS'[t] = SESSIONS[t]
          \/ call'.op = "logout" /\ call'.ran /\ call'.tok = t]_vars

\* The token user 1 got at time 0 is bound to user 1 after time has passed,
\* user 1 has logged in again, a deck, credits and a text were stored, and a
\* logout presenting user 2's token has just run.
C28_Witness ==
    /\ Token(1, 0) \in DOMAIN SESSIONS /\ SESSIONS[Token(1, 0)] = 1
    /\ clock > 0 /\ Token(1, clock) \in DOMAIN SESSIONS
    /\ decks # {} /\ actuar # {} /\ \E u \in ab_user : u.credits > 0
    /\ call.op = "logout" /\ call.ran /\ call.tok = Token(2, 0)
    /\ Token(2, 0) \notin DOMAIN SESSIONS

\* C29: a logout that presents a token the registry does not hold leaves the
\* registry as it is and is answered by the success response when the request
\* carries a session cookie, by 401 'authentication required' when it does
\* not.
C29_LogoutOfUnknownToken ==
    [][( /\ clock' = clock        \* a request, not the passing of time
         /\ call'.op = "logout"
         /\ call'.tok # NoToken
         /\ call'.tok \notin DOMAIN SESSIONS ) =>
            /\ SESSIONS' = SESSIONS
            /\ IF call'.cr.ambient # NoUser
               THEN resp' = Ok(200, [success |-> TRUE])
               ELSE resp' = AuthRequired]_vars

\* A logout with a session cookie and a token never issued succeeded, and the
\* registry still holds the tokens of both users.
C29_Witness ==
    /\ call.op = "logout" /\ call.ran /\ call.tok = NeverIssued
    /\ call.cr.ambient = 1 /\ resp = Ok(200, [success |-> TRUE])
    /\ {Token(1, 0), Token(2, 0)} \subseteq DOMAIN SESSIONS

\* A logout with a token never issued and no cookie was answered 401.
C29_WitnessRefused ==
    /\ call.op = "logout" /\ ~call.ran /\ call.tok = NeverIssued
    /\ resp = AuthRequired /\ DOMAIN SESSIONS # {}

\* C31: the credit balance of every user is an integer that is not negative.
C31_CreditsNeverNegative ==
    \A u \in ab_user : u.credits \in Nat

\* C32: a token leaves the registry only in a logout that ran with the user
\* the token is bound to as its current user.
C32_LogoutRemovesOwnTokenOnly ==
    [][\A t \in DOMAIN SESSIONS :
          t \notin DOMAIN SESSIONS' =>
              /\ call'.op = "logout" /\ call'.ran
              /\ call'.user = SESSIONS[t]]_vars

\* C33: a single-value publish by a user who has never published before
\* leaves every artifact that exists (each written by a publish of another
\* user) as it was.
C33_PublishKeepsOthersArtifacts ==
    [][(call'.op = "post_actuar" /\ call'.ran /\ ActuarOf(actuar, call'.user) = {}) =>
          \A key \in DOMAIN static_files :
             FileAt(static_files', key) = static_files[key]]_vars


-----------------------------------------------------------------------------
(* SpecKeys: two signed-in users, a@x and a_b@x, publishing single values  *)
(* and two-phase values.  Single-value publishes carry the text "hi", the  *)
(* two-phase publishes of user 1 the text 5 and those of user 2 the 6.     *)

KeysEmails == << <<"a", "@", "x">>, <<"a", "_", "b", "@", "x">> >>
KeysUsers == add_user(add_user({}, KeysEmails[1], "pw1"), KeysEmails[2], "pw2")
KeysCredentials == [u \in {1, 2} |-> Credentials(NoUser, Token(u, 0), NoToken)]
\* The values each user asks to be permitted, and publishes under.
KeysValues ==
    [u \in {1, 2} |-> IF u = 1 THEN {<<"b">>, <<"b", "_", "c">>} ELSE {<<"c">>}]
KeysInitBody ==
    [u \in {1, 2} |->
        IF u = 1 THEN [values |-> List(<<Text(<<"b">>), Text(<<"b", "_", "c">>)>>)]
        ELSE [values |-> List(<<Text(<<"c">>)>>)]]
KeysTokens == {<<"b">>, <<"c">>, <<"b", "_", "c">>}
KeysText == [u \in {1, 2} |-> IF u = 1 THEN Num(5) ELSE Num(6)]
KeysIo == {"ok", "open_fails"}

InitKeys ==
    /\ ACTUAR2_VALUES = NoValues
    /\ clock = 0
    /\ threads = NoThreads
    /\ call = NotCalled
    /\ resp = Ok(0, Null)
    /\ SESSIONS = RepoSessions
    /\ ab_user = KeysUsers
    /\ decks = {}
    /\ routines = {}
    /\ actuar = {}
    /\ static_files = NoFiles

NextKeys ==
    \/ \E u \in {1, 2}, io \in KeysIo :
          post_actuar(KeysCredentials[u], [text |-> Text(Hi)], io)
    \/ \E u \in {1, 2} : actuar2_init(KeysCredentials[u], KeysInitBody[u])
    \/ \E u \in {1, 2}, io \in KeysIo :
          \E t \in KeysValues[u] :
             actuar2_post(KeysCredentials[u], [value |-> Text(t), text |-> KeysText[u]], io)

SpecKeys == InitKeys /\ [][NextKeys]_vars

\* The key of a user's single-value artifact.
ActuarKey(u) == OutPath(_derive_sanitized_username(u))

\* C34: a two-phase publish that reaches the write leaves as it was every
\* single-value artifact (one holding the text "hi"), of whatever user, and
\* every two-phase artifact of another user (one holding that user's text).
C34_Publish2KeepsOtherArtifacts ==
    [][(call'.op = "actuar2_post" /\ call'.ran /\ resp'.status \in {200, 500}) =>
          /\ \A v \in ab_user :
                (FileAt(static_files, ActuarKey(v)) # Null
                   /\ static_files[ActuarKey(v)].pre = Hi) =>
                      static_files'[ActuarKey(v)] = static_files[ActuarKey(v)]
          /\ \A v \in ab_user, t \in KeysTokens :
                (v.id # call'.user /\ FileAt(static_files, Actuar2Key(v, t)) # Null
                   /\ static_files[Actuar2Key(v, t)].pre = PyStr(KeysText[v.id])) =>
                      static_files'[Actuar2Key(v, t)] = static_files[Actuar2Key(v, t)]]_vars


-----------------------------------------------------------------------------
(* SpecPublishTwice: user 1 publishing through two workers at a time, the  *)
(* steps interleaved; every write of an artifact succeeds, so a publish    *)
(* that has committed reports success when it completes.                   *)

TwiceBodies == { [text |-> Text(Hi)], [text |-> Num(5)], [text |-> Text(<<"y", "o">>)] }

NextPublishTwice ==
    \/ \E p \in Workers, data \in TwiceBodies :
          post_actuar_begin(p, Credentials(NoUser, Token(1, 0), NoToken), data)
    \/ \E p \in Workers : post_actuar_commit(p)
    \/ \E p \in Workers : post_actuar_reload(p)
    \/ \E p \in Workers : post_actuar_write(p, "ok")

SpecPublishTwice == InitPublish /\ [][NextPublishTwice]_vars

\* C35: when a publish of user 1 completes with success and no other publish
\* is under way, the artifact shows the text of the stored publish record.
C35_ArtifactShowsRecordWhenQuiet ==
    [][(call'.op = "post_actuar" /\ call'.ran /\ resp'.status = 200
           /\ threads # NoThreads /\ threads' = NoThreads) =>
          \A u \in UserById(ab_user, 1) :
             \A row \in ActuarOf(actuar', 1) :
                /\ ActuarKey(u) \in DOMAIN static_files'
                /\ Unescape(static_files'[ActuarKey(u)].pre) = row.text]_vars


-----------------------------------------------------------------------------
(* SpecNames: user 1 creating, renaming and deleting decks and routines,   *)
(* with names that are present, empty, null or missing.                    *)

NamesCredentials == Credentials(NoUser, Token(1, 0), NoToken)
NamesDeckBodies == { [name |-> Str("D1")], [name |-> Str("")], [description |-> Str("d")] }
NamesRoutineBodies ==
    { [name |-> Str("R1"), deck_name |-> Str("D1")],
      [name |-> Str(""), deck_name |-> Str("D1")],
      [deck_name |-> Str("D1")] }
NamesUpdates == { [name |-> Str("N2")], [name |-> Str("")], [name |-> Null] }

NextNames ==
    \/ \E data \in NamesDeckBodies :
          NextId(decks) <= MaxRows /\ create_deck(NamesCredentials, data)
    \/ \E id \in 1..MaxRows, data \in NamesUpdates :
          update_deck(NamesCredentials, id, data)
    \/ \E id \in 1..MaxRows : delete_deck(NamesCredentials, id)
    \/ \E data \in NamesRoutineBodies :
          NextId(routines) <= MaxRows /\ create_routine(NamesCredentials, data)
    \/ \E id \in 1..MaxRows, data \in NamesUpdates :
          update_routine(NamesCredentials, id, data)
    \/ \E id \in 1..MaxRows : delete_routine(NamesCredentials, id)

SpecNames == InitRepo /\ [][NextNames]_vars

\* C36: every stored deck and every stored routine has a name that is a
\* string and is not empty.
C36_NamesNeverEmpty ==
    /\ \A d \in decks : d.name.t = "str" /\ d.name.v # ""
    /\ \A r \in routines : r.name.t = "str" /\ r.name.v # ""


-----------------------------------------------------------------------------
(* SpecBothPlaces: requests without an ambient session that carry a token  *)
(* in the Authorization header, in the query string, or in both.           *)

BothPlaces ==
    { Credentials(NoUser, h, q) :
        h \in {NoToken} \cup SessionTokens, q \in {NoToken} \cup SessionTokens }

NextBothPlaces ==
    \/ login(RepoEmails[1], "pw1")
    \/ login(RepoEmails[2], "pw2")
    \/ \E cr \in BothPlaces : logout(cr)
    \/ \E cr \in BothPlaces : get_user(cr)
    \/ Tick

SpecBothPlaces == InitSession /\ [][NextBothPlaces]_vars

\* C37: a request without an ambient session that carries a live token in
\* the header or in the query parameter is authenticated.
C37_LiveTokenInEitherPlace ==
    [][(/\ call'.op = "get_user" /\ clock' = clock
        /\ call'.cr.ambient = NoUser
        /\ \/ call'.cr.header \in DOMAIN SESSIONS
           \/ call'.cr.query \in DOMAIN SESSIONS) => call'.ran]_vars


\* C38: a public lookup by an identifier without '@' that is no user's
\* email, username or email local-part (compared without case) answers
\* 'user not found'.
C38_LocalPartIsCompared ==
    (LookedUp /\ "@" \notin Range(Strip(call.path)) /\ Strip(call.path) # <<>>) =>
        (ByEmail(Strip(call.path)) \cup ByUsername(Strip(call.path))
             \cup ByLocalPart(Strip(call.path)) = {}
           => resp = Error(404, "user not found"))


-----------------------------------------------------------------------------
(* SpecCredits: add_credits of user 1 served by two request threads, each  *)
(* with its own database session, a step per access to the users table.    *)
(* threads[p] is the request worker p is serving and what it has added:    *)
(*   pc       "idle", or "commit" (require_user has loaded the user and    *)
(*            the amount is accepted)                                      *)
(*   cr       the credentials of the request                               *)
(*   amount   int(data.get('amount', 0))                                   *)
(*   current  the credits of the user as loaded                            *)
(*   added    the sum of the amounts of the calls of p answered by 200     *)

CreditsWorkers == {1, 2}
CreditsAmounts == {[amount |-> Num(1)], [amount |-> Num(2)], [amount |-> Num(0)]}
CreditsCredentials == {Credentials(NoUser, Token(1, 0), NoToken), NoCredentials}
CreditsIdle(added) ==
    [pc |-> "idle", cr |-> NoCredentials, amount |-> 0, current |-> 0, added |-> added]

\* require_user loads the user; the amount is read and checked.
add_credits_load(p, cr, data) ==
    LET uid    == require_user(cr)
        amount == GetOr(data, "amount", Num(0))
    IN  /\ threads[p].pc = "idle"
        /\ IF uid = NoUser THEN Reject("add_credits", cr)
           ELSE \E u \in UserById(ab_user, uid) :
                IF amount.t # "int"
                THEN /\ call' = Call("add_credits", cr, uid)
                     /\ resp' = ServerError
                     /\ UNCHANGED <<stores, clock, threads>>
                ELSE IF amount.v <= 0
                THEN /\ call' = Call("add_credits", cr, uid)
                     /\ resp' = Error(400, "amount must be positive")
                     /\ UNCHANGED <<stores, clock, threads>>
                ELSE /\ threads' = [threads EXCEPT
                                      ![p] = [pc |-> "commit", cr |-> cr,
                                              amount |-> amount.v, current |-> u.credits,
                                              added |-> threads[p].added]]
                     /\ UNCHANGED <<stores, clock, call, resp>>

\* setattr(u, 'credits', current + amount); db.session.commit(); the answer
\* carries the credits of the row as committed.
add_credits_commit(p) ==
    /\ threads[p].pc = "commit"
    /\ LET me == threads[p]
           uid == require_user(me.cr)
       IN  \E u \in UserById(ab_user, uid) :
              /\ ab_user' = (ab_user \ {u})
                               \cup {[u EXCEPT !.credits = me.current + me.amount]}
              /\ call' = Call("add_credits", me.cr, uid)
              /\ resp' = Ok(200, [credits |-> me.current + me.amount])
              /\ threads' = [threads EXCEPT ![p] = CreditsIdle(me.added + me.amount)]
    /\ UNCHANGED <<SESSIONS, decks, routines, actuar, static_files, ACTUAR2_VALUES,
                   clock>>

InitCredits ==
    /\ ACTUAR2_VALUES = NoValues
    /\ clock = 0
    /\ threads = [p \in CreditsWorkers |-> CreditsIdle(0)]
    /\ call = NotCalled
    /\ resp = Ok(0, Null)
    /\ SESSIONS = RepoSessions
    /\ ab_user = RepoUsers
    /\ decks = {}
    /\ routines = {}
    /\ actuar = {}
    /\ static_files = NoFiles

NextCredits ==
    \/ \E p \in CreditsWorkers, cr \in CreditsCredentials, data \in CreditsAmounts :
          /\ \A u \in ab_user : u.credits <= MaxCredits
          /\ add_credits_load(p, cr, data)
    \/ \E p \in CreditsWorkers : add_credits_commit(p)

SpecCredits == InitCredits /\ [][NextCredits]_vars

\* C39: when no addition is under way, the balance of user 1 is the initial
\* balance, 0, plus the amounts of all the additions answered by 200.
C39_NoAdditionLost ==
    (\A p \in CreditsWorkers : threads[p].pc = "idle") =>
        \A u \in UserById(ab_user, 1) :
           u.credits = threads[1].added + threads[2].added

=============================================================================
